---- MODULE Spec2Model ----
(***************************************************************************)
(* A model of chatlas' orchestration engine (chatlas/_chat.py): the turn   *)
(* history of a Chat, its tool registry, and the generator that drives one *)
(* submission through provider request, response consumption, history     *)
(* update and tool invocation (_chat_impl / _submit_turns / _invoke_tools  *)
(* and their async twins), against a stub provider shaped like             *)
(* OpenAIProvider (chatlas/_openai.py).                                    *)
(***************************************************************************)
EXTENDS Integers, Sequences, FiniteSets, TLC

VARIABLES
    turns,      \* Chat._turns: the conversation history, a sequence of Turn
    tools,      \* Chat._tools: tool name -> <<Tool>> (<<>> when not registered)
    gen,        \* per response handle: the frame of its _chat_impl generator
    cur,        \* the handle whose generator is executing, or NoHandle
    nrequests,  \* number of provider.chat_perform calls made so far
    last_call   \* what the caller's last call on the Chat's history did

vars == <<turns, tools, gen, cur, nrequests, last_call>>

----------------------------------------------------------------------------
(* Bounds *)

\* Total number of provider requests the stub provider serves.
MaxRequests == 3

----------------------------------------------------------------------------
(* Values *)

\* Python's None
None == "<None>"

NoHandle == "none"
AllHandles == {"h1", "h2"}
\* Handles the sequential specification uses: one submission at a time.
SeqHandles == {"h1"}

\* Optional values are sequences of length 0 (None) or 1.
Some(x) == <<x>>
Nothing == <<>>

----------------------------------------------------------------------------
(* Content and Turn (chatlas/_content.py, chatlas/_turn.py) *)

ContentText(text) == [kind |-> "text", text |-> text]

ContentToolRequest(id, name, arguments) ==
    [kind |-> "tool_request", id |-> id, name |-> name, arguments |-> arguments]

ContentToolResult(id, value, error) ==
    [kind |-> "tool_result", id |-> id, value |-> value, error |-> error]

\* ContentJson: the result of structured data extraction
ContentJson(value) == [kind |-> "json", value |-> value]

Turn(role, contents) ==
    [role |-> role, contents |-> contents, tokens |-> Nothing]

\* Turn.text: the texts of the turn's ContentText items, joined.
RECURSIVE JoinText(_)
JoinText(contents) ==
    IF contents = <<>> THEN ""
    ELSE (IF Head(contents).kind = "text" THEN Head(contents).text ELSE "")
         \o JoinText(Tail(contents))

turn_text(turn) == JoinText(turn.contents)

\* user_turn(*args): a string input becomes one ContentText of a user turn.
user_turn(input) == Turn("user", <<ContentText(input)>>)

\* Python values a tool call can carry as arguments: a dict (its keys; the
\* values do not decide anything here) or a non-dict value.
DictArgs(keys) == [dict |-> TRUE, keys |-> keys]
ScalarArgs == [dict |-> FALSE, keys |-> {}]

----------------------------------------------------------------------------
(* Tools (chatlas/_tools.py) *)

Returns(v) == [raised |-> FALSE, value |-> v, msg |-> None]
Raises(m) == [raised |-> TRUE, value |-> None, msg |-> m]

\* A registered function: its name, its parameters (all required), whether
\* it is a coroutine function, and what its body can do when it runs.
ToolAdd ==
    [name |-> "add", params |-> {"a", "b"}, is_async |-> FALSE,
     outcomes |-> {Returns("3"), Raises("boom")}]
ToolAddAsync ==
    [name |-> "add", params |-> {"a", "b"}, is_async |-> TRUE,
     outcomes |-> {Returns(None)}]

ToolEcho ==
    [name |-> "echo", params |-> {"a"}, is_async |-> FALSE,
     outcomes |-> {Returns("a")}]

ToolFuncs == {ToolAdd, ToolAddAsync}
AllToolFuncs == ToolFuncs \cup {ToolEcho}
ToolNames == {f.name : f \in AllToolFuncs}

----------------------------------------------------------------------------
(* The stub provider: what the remote service can answer *)

\* A tool call on the wire carries its arguments as a JSON string.
JsonDict(keys) == [json |-> "dict", keys |-> keys]
JsonScalar == [json |-> "scalar", keys |-> {}]
JsonEmpty == [json |-> "empty", keys |-> {}]
JsonMalformed == [json |-> "malformed", keys |-> {}]

ToolCall(id, name, arguments) == [id |-> id, name |-> name, arguments |-> arguments]

CallAdd == ToolCall("c1", "add", JsonDict({"a", "b"}))
CallAddMissingArg == ToolCall("c2", "add", JsonDict({"a"}))
CallUnknown == ToolCall("c3", "missing_fn", JsonEmpty)
CallScalar == ToolCall("c4", "add", JsonScalar)
CallMalformed == ToolCall("c5", "add", JsonMalformed)

\* A complete answer of the service: the text as the deltas it is streamed
\* in (no delta at all: message.content is None) and the tool calls.
Response(deltas, tool_calls) == [deltas |-> deltas, tool_calls |-> tool_calls]

\* Answers that request tools, and answers that do not.
ToolResponses ==
    { Response(<<"a", "b">>, <<CallUnknown, CallAdd>>),
      Response(<<>>, <<CallAddMissingArg, CallMalformed, CallScalar>>) }

FinalResponses ==
    { Response(<<"a", "b">>, <<>>),
      Response(<<"">>, <<>>) }

\* Answers to a request that carries a data model: the JSON text of the data,
\* a text that breaks off before the JSON is complete, or no content at all.
DataResponses ==
    { Response(<<"{\"n\":", "1}">>, <<>>),
      Response(<<"{\"n\":">>, <<>>),
      Response(<<>>, <<CallAdd>>) }

RECURSIVE Concat(_)
Concat(deltas) ==
    IF deltas = <<>> THEN "" ELSE Head(deltas) \o Concat(Tail(deltas))

\* message.content of the complete answer
ResponseContent(r) == IF r.deltas = <<>> THEN None ELSE Concat(r.deltas)

\* completion.usage of the answer, as (prompt_tokens, completion_tokens):
\* the stub service reports none for the answer with the empty text.
ResponseUsage(r) ==
    IF r.deltas = <<"">> THEN Nothing
    ELSE Some(<<5 + Len(r.tool_calls), Len(r.deltas)>>)

\* A ChatCompletion (stream=False): its first choice's message, and its
\* usage.
Completion(r) ==
    [content |-> ResponseContent(r), tool_calls |-> r.tool_calls,
     usage |-> ResponseUsage(r)]

\* A ChatCompletionChunk: whether it has choices, and its first choice's
\* delta (content, tool_calls).
Chunk(content, tool_calls) ==
    [choices |-> TRUE, content |-> content, tool_calls |-> tool_calls,
     usage |-> Nothing]
UsageChunk ==
    [choices |-> FALSE, content |-> None, tool_calls |-> <<>>,
     usage |-> Nothing]

\* The answer streamed as a single chunk.
OneChunk(r) ==
    <<[Chunk(ResponseContent(r), r.tool_calls) EXCEPT !.usage = ResponseUsage(r)]>>

\* The answer streamed as N chunks: one per text delta, one for the tool
\* calls, and the trailing usage chunk that has no choices.
ManyChunks(r) ==
    [i \in 1..Len(r.deltas) |-> Chunk(r.deltas[i], <<>>)]
    \o (IF r.tool_calls = <<>> THEN <<>> ELSE <<Chunk(None, r.tool_calls)>>)
    \o <<[UsageChunk EXCEPT !.usage = ResponseUsage(r)]>>

ChunkStreams(r) == {OneChunk(r), ManyChunks(r)}

----------------------------------------------------------------------------
(* Provider contract, as OpenAIProvider implements it *)

\* Provider.stream_text
stream_text(chunk) == IF ~chunk.choices THEN None ELSE chunk.content

\* merge_dicts on the parts of a completion that the engine reads: the
\* incrementally delivered text is concatenated, lists are appended.
merge_dicts(completion, chunkd) ==
    [content |->
        IF chunkd.content = None THEN completion.content
        ELSE IF completion.content = None THEN chunkd.content
        ELSE completion.content \o chunkd.content,
     tool_calls |-> completion.tool_calls \o chunkd.tool_calls,
     usage |-> IF chunkd.usage = Nothing THEN completion.usage
               ELSE chunkd.usage]

\* Mutant: the chunk replaces the accumulation.
stream_merge_chunks_last(completion, chunk) ==
    Some([content |-> chunk.content, tool_calls |-> chunk.tool_calls,
          usage |-> chunk.usage])

\* Provider.stream_merge_chunks; completion is Nothing (None) or Some(dict)
stream_merge_chunks(completion, chunk) ==
    LET chunkd == [content |-> chunk.content, tool_calls |-> chunk.tool_calls,
                   usage |-> chunk.usage]
    IN  IF completion = Nothing THEN Some(chunkd)
        ELSE Some(merge_dicts(completion[1], chunkd))

\* Mutant: the text that does not parse is passed on as it is.
ParseArguments_raw(a) ==
    IF a.json = "dict" THEN DictArgs(a.keys)
    ELSE IF a.json \in {"scalar", "malformed"} THEN ScalarArgs
    ELSE DictArgs({})

\* args = {}; try: args = json.loads(func.arguments) if func.arguments else {}
\* except json.JSONDecodeError: warnings.warn(...)
ParseArguments(a) ==
    IF a.json = "dict" THEN DictArgs(a.keys)
    ELSE IF a.json = "scalar" THEN ScalarArgs
    ELSE DictArgs({})

\* The InvalidJSONParameterWarning warnings _as_turn issues for a message.
RECURSIVE as_turn_warnings(_)
as_turn_warnings(tool_calls) ==
    IF tool_calls = <<>> THEN 0
    ELSE (IF Head(tool_calls).arguments.json = "malformed" THEN 1 ELSE 0)
         + as_turn_warnings(Tail(tool_calls))

RECURSIVE ToolRequests(_)
ToolRequests(tool_calls) ==
    IF tool_calls = <<>> THEN <<>>
    ELSE <<ContentToolRequest(Head(tool_calls).id, Head(tool_calls).name,
                              ParseArguments(Head(tool_calls).arguments))>>
         \o ToolRequests(Tail(tool_calls))

\* json.loads(message.content): the value the JSON text denotes
json_loads(text) == [json |-> text]

\* The texts of the stub provider that are JSON documents: json.loads raises
\* json.JSONDecodeError on any other.
JsonDocuments == {"{\"n\":1}", "{\"n\":2}"}

\* OpenAIProvider._as_turn raises: "data = json.loads(message.content)" is
\* not inside a try.
as_turn_raises(message, has_data_model) ==
    /\ message.content # None
    /\ has_data_model
    /\ message.content \notin JsonDocuments

\* tokens = (0, 0) if completion.usage is None, else (usage.prompt_tokens,
\* usage.completion_tokens)
as_turn_tokens(usage) == IF usage = Nothing THEN <<0, 0>> ELSE usage[1]

\* OpenAIProvider._as_turn
as_turn(message, has_data_model) ==
    [Turn("assistant",
          (IF message.content # None
           THEN IF has_data_model
                THEN <<ContentJson(json_loads(message.content))>>
                ELSE <<ContentText(message.content)>>
           ELSE <<>>)
          \o ToolRequests(message.tool_calls))
       EXCEPT !.tokens = Some(as_turn_tokens(message.usage))]

\* OpenAIProvider.stream_turn: the accumulated delta becomes the message
stream_turn(completion, has_data_model) == as_turn(completion, has_data_model)

\* OpenAIProvider.value_turn
value_turn(completion, has_data_model) == as_turn(completion, has_data_model)

\* A provider that extracts data through tool calls (as the Anthropic
\* provider does) makes one ContentJson of each call the service made: the
\* turn of an answer with two of them.
TwoJsonTurn ==
    Turn("assistant", <<ContentJson(json_loads("{\"n\":1}")),
                        ContentJson(json_loads("{\"n\":2}"))>>)

----------------------------------------------------------------------------
(* Tool invocation (Chat._invoke_tool, Chat._invoke_tool_async) *)

\* Mutant: the arguments are always passed as one positional argument.
BindError_positional(func, arguments) ==
    IF Cardinality(func.params) = 0 THEN "takes 0 positional arguments"
    ELSE IF Cardinality(func.params) > 1 THEN "missing required argument"
    ELSE None

\* What Python does when func(**arguments) or func(arguments) binds the
\* arguments to the parameters: None, or the TypeError's message.
BindError(func, arguments) ==
    IF arguments.dict
    THEN IF func.params \ arguments.keys # {}
         THEN "missing required argument"
         ELSE IF arguments.keys \ func.params # {}
         THEN "got an unexpected keyword argument"
         ELSE None
    ELSE IF Cardinality(func.params) = 0
         THEN "takes 0 positional arguments"
         ELSE IF Cardinality(func.params) > 1
         THEN "missing required argument"
         ELSE None

\* result = func(**arguments) / func(arguments), called without await: a
\* coroutine function returns a coroutine object and does not run its body.
CallSync(func, arguments, outcome) ==
    IF BindError(func, arguments) # None THEN Raises(BindError(func, arguments))
    ELSE IF func.is_async THEN Returns("<coroutine>")
    ELSE outcome

\* Mutant: the value a plain function returned is taken as the result.
CallAwait_plain(func, arguments, outcome) ==
    IF BindError(func, arguments) # None THEN Raises(BindError(func, arguments))
    ELSE outcome

\* result = await func(**arguments) / await func(arguments): a plain function
\* runs, and awaiting its return value raises TypeError.
CallAwait(func, arguments, outcome) ==
    IF BindError(func, arguments) # None THEN Raises(BindError(func, arguments))
    ELSE IF func.is_async THEN outcome
    ELSE IF outcome.raised THEN outcome
    ELSE Raises("object can't be used in 'await' expression")

\* Mutant: the except clause drops the exception's message.
CaptureResult_swallow(id_, r) ==
    IF r.raised THEN ContentToolResult(id_, None, None)
    ELSE ContentToolResult(id_, r.value, None)

\* Mutant: the except clause reports the message as the value too.
CaptureResult_both(id_, r) ==
    IF r.raised THEN ContentToolResult(id_, r.msg, r.msg)
    ELSE ContentToolResult(id_, r.value, None)

\* The try/except of _invoke_tool and _invoke_tool_async around the call.
CaptureResult(id_, r) ==
    IF r.raised THEN ContentToolResult(id_, None, r.msg)
    ELSE ContentToolResult(id_, r.value, None)

\* Mutant: no check for a missing function, so that calling None raises and
\* the TypeError is what gets reported.
invoke_tool_no_check(func, arguments, id_, outcome) ==
    IF func = Nothing
    THEN ContentToolResult(id_, None, "'NoneType' object is not callable")
    ELSE CaptureResult(id_, CallSync(func[1], arguments, outcome))

\* Chat._invoke_tool; func is Nothing (None) or Some(tool function)
invoke_tool(func, arguments, id_, outcome) ==
    IF func = Nothing THEN ContentToolResult(id_, None, "Unknown tool")
    ELSE CaptureResult(id_, CallSync(func[1], arguments, outcome))

\* Chat._invoke_tool_async
invoke_tool_async(func, arguments, id_, outcome) ==
    IF func = Nothing THEN ContentToolResult(id_, None, "Unknown tool")
    ELSE CaptureResult(id_, CallAwait(func[1], arguments, outcome))

\* self._tools.get(name, None), then tool_def.func
tools_get(registry, name) ==
    IF name \in DOMAIN registry THEN registry[name] ELSE Nothing

\* What running the looked-up function's body can do.
Outcomes(func) == IF func = Nothing THEN {Returns(None)} ELSE func[1].outcomes

----------------------------------------------------------------------------
(* Chat: history helpers *)

\* Chat.get_last_turn(role): Nothing or Some(turn)
RECURSIVE get_last_turn(_, _)
get_last_turn(ts, role) ==
    IF ts = <<>> THEN Nothing
    ELSE IF ts[Len(ts)].role = role THEN Some(ts[Len(ts)])
    ELSE get_last_turn(SubSeq(ts, 1, Len(ts) - 1), role)

IsToolRequest(x) == x.kind = "tool_request"

\* The ContentToolRequest items of a turn, in the order of its contents.
requests_of(turn) == SelectSeq(turn.contents, IsToolRequest)

\* Mutant: the check for async tools is missing.
any_async_tool_never(registry) == FALSE

\* any(x._is_async for x in self._tools.values())
any_async_tool(registry) ==
    \E n \in DOMAIN registry : registry[n] # Nothing /\ registry[n][1].is_async

\* Mutant: the pair is committed when the request is made, with an assistant
\* turn to be filled in.
turns_on_request_early(ts, ut) == ts \o <<ut, Turn("assistant", <<>>)>>

\* Mutant: the user turn is appended to the history to build the request.
turns_on_request_append(ts, ut) == ts \o <<ut>>

\* turns=[*self._turns, user_turn]: the request is built from a copy, the
\* history itself is what it was.
turns_on_request(ts, ut) == ts

\* Mutant: the pair takes the place of the history.
extend_turns_replace(ts, ut, turn) == <<ut, turn>>

\* Mutant: the pair is appended in the wrong order.
extend_turns_swapped(ts, ut, turn) == ts \o <<turn, ut>>

\* Mutant: the user turn is appended with the request and again with the pair.
extend_turns_twice(ts, ut, turn) == ts \o <<ut, ut, turn>>

\* self._turns.extend([user_turn, turn])
extend_turns(ts, ut, turn) == ts \o <<ut, turn>>

\* Mutant: results are collected newest first.
append_result_front(results, r) == <<r>> \o results

\* results.append(...) in _invoke_tools
append_result(results, r) == Append(results, r)

\* Mutant: _invoke_tools never hands results back.
tools_turn_never(results) == Nothing

\* Mutant: a round in which a tool failed is not resubmitted.
tools_turn_stop_on_error(results) ==
    IF results = <<>> \/ \E i \in 1..Len(results) : results[i].error # None
    THEN Nothing
    ELSE Some(Turn("user", results))

\* The end of _invoke_tools: None when there is no result, else one user turn.
tools_turn(results) ==
    IF results = <<>> THEN Nothing ELSE Some(Turn("user", results))

\* Mutant: a cancelled round leaves its submission turn in the history.
turns_on_close_user(ts, ut, partial) == ts \o <<ut[1]>>

\* Mutant: a finally clause commits what was received so far.
turns_on_close_partial(ts, ut, partial) ==
    IF partial = Nothing THEN ts \o <<ut[1]>>
    ELSE ts \o <<ut[1], stream_turn(partial[1], FALSE)>>

\* _submit_turns holds no try/finally around its yield: closing the generator
\* there leaves the history as it is.
turns_on_close(ts, ut, partial) == ts

----------------------------------------------------------------------------
(* State *)

Inputs == {"hi"}

SystemTurn == Turn("system", <<ContentText("be terse")>>)

\* Histories a Chat is constructed with (Chat.__init__'s turns).
InitHistories ==
    { <<>>,
      <<SystemTurn>>,
      <<Turn("user", <<ContentText("q")>>),
        Turn("assistant",
             <<ContentToolRequest("c0", "add", DictArgs({"a", "b"}))>>)>> }

\* The frame of one response handle's generator, before it exists.
IdleGen ==
    [pc |-> "idle",
     api |-> "chat",              \* "chat": consumed by chat(); "stream": by the
                                  \* caller; "extract": by extract_data()
     is_async |-> FALSE,          \* _chat_impl_async rather than _chat_impl
     stream |-> FALSE,            \* the stream argument
     input |-> None,              \* the caller's input
     user_turn_result |-> Nothing,
     response |-> <<>>,           \* chunks the provider stream still holds
     chunks |-> <<>>,             \* stub provider: the chunks of the whole stream
     emitted |-> <<>>,            \* the texts this cycle has yielded so far
     result |-> Nothing,          \* the accumulated completion
     turn |-> Nothing,            \* the finalized assistant turn
     todo |-> <<>>,               \* tool requests _invoke_tools has yet to reach
     results |-> <<>>,
     calls |-> <<>>,              \* what each tool call of this round did
     blocking |-> <<>>,           \* what _invoke_tool makes of each of them
     content |-> "",              \* ChatResponse.content: the text delivered so far
     iter_content |-> "",         \* the text the caller's current loop over the
                                  \* handle has been given
     reiterated |-> FALSE,        \* the caller has begun a further loop over it
     stopped |-> FALSE,           \* next() has raised StopIteration
     warnings |-> 0,              \* warnings issued when the turn was finalized
     request |-> Nothing,         \* what chat_perform was just called with
     raised |-> None,             \* the exception that ended the call
     returned |-> Nothing,        \* what extract_data returned
     nreq |-> 0,                  \* provider requests of this submission
     rounds |-> 0,                \* stub provider: answers that asked for tools
     served |-> Nothing,          \* stub provider: the answer to the last request
     provider_stream |-> "none",  \* stub provider: the state of its chunk stream
     start_turns |-> <<>>,        \* the history when the submission was made
     before |-> <<>>]             \* the history when the current cycle began

\* The caller has made no call on the history since it last submitted or
\* registered a tool.
NoCall == [op |-> "none", arg |-> <<>>, raised |-> None, before |-> <<>>]

Init ==
    /\ last_call = NoCall
    /\ turns \in InitHistories
    /\ tools = [n \in ToolNames |-> Nothing]
    /\ gen = [h \in AllHandles |-> IdleGen]
    /\ cur = NoHandle
    /\ nrequests = 0

\* Who runs after generator h yields: chat() resumes it at once, the caller
\* of stream() gets control.
AtYield(h) == IF gen[h].api = "stream" THEN NoHandle ELSE h

\* The generator's frame is gone once it has returned, raised or been closed:
\* what is left is the handle and what the caller saw.
Ended(g, pc, raised) ==
    [IdleGen EXCEPT !.pc = pc, !.raised = raised, !.api = g.api,
                    !.is_async = g.is_async, !.stream = g.stream,
                    !.input = g.input, !.content = g.content,
                    !.iter_content = g.iter_content,
                    !.reiterated = g.reiterated,
                    !.returned = g.returned,
                    !.nreq = g.nreq, !.rounds = g.rounds, !.served = g.served,
                    !.provider_stream = g.provider_stream,
                    !.start_turns = g.start_turns, !.before = g.before]

Finished(h) == gen[h].pc \in {"idle", "done", "failed", "closed"}

----------------------------------------------------------------------------
(* Caller operations *)

\* Mutant: a name that is taken keeps its function.
register_tool_first_wins(registry, f) ==
    IF registry[f.name] = Nothing THEN [registry EXCEPT ![f.name] = Some(f)]
    ELSE registry

\* tool = Tool(func, model=model); self._tools[tool.name] = tool
register_tool(registry, f) == [registry EXCEPT ![f.name] = Some(f)]

\* Chat.register_tool
RegisterTool(f) ==
    /\ cur = NoHandle
    /\ tools[f.name] # Some(f)
    /\ tools' = register_tool(tools, f)
    /\ UNCHANGED <<turns, gen, cur, nrequests>>
    /\ last_call' = NoCall

\* Chat.register_tool, whatever the registry holds under the name, with the
\* call noted as the caller's last.
Register(f) ==
    /\ cur = NoHandle
    /\ tools' = register_tool(tools, f)
    /\ UNCHANGED <<turns, gen, cur, nrequests>>
    /\ last_call' = [op |-> "register_tool", arg |-> <<f>>, raised |-> None,
                     before |-> turns]

\* A declared type, as typing.get_origin and typing.get_args see it: its
\* origin (None for a plain class), its name, its type arguments, the
\* metadata of an Annotated, the fields of a TypedDict.
PlainType(name) ==
    [origin |-> None, name |-> name, args |-> <<>>, meta |-> <<>>,
     fields |-> <<>>]
GenericType(origin, args) ==
    [origin |-> origin, name |-> origin, args |-> args, meta |-> <<>>,
     fields |-> <<>>]
AnnotatedType(t, meta) ==
    [origin |-> "Annotated", name |-> "Annotated", args |-> <<t>>,
     meta |-> meta, fields |-> <<>>]
TypedDictType(fields) ==
    [origin |-> None, name |-> "TypedDict", args |-> <<>>, meta |-> <<>>,
     fields |-> fields]
Field(name, type) == [name |-> name, type |-> type]

\* One metadata item of an Annotated: a string or something else.
MetaStr(text) == [is_str |-> TRUE, text |-> text]
MetaOther == [is_str |-> FALSE, text |-> None]

\* One parameter of inspect.signature(func): its name, its kind, whether it
\* has a default, and its annotation if it has one.
Param(name, kind, has_default, annotation) ==
    [name |-> name, kind |-> kind, has_default |-> has_default,
     annotation |-> annotation]

\* A function handed to register_tool, with its signature and docstring.
Def(name, is_async, doc, signature) ==
    [name |-> name,
     params |-> {signature[i].name : i \in
                   {j \in 1..Len(signature) : ~signature[j].has_default}},
     is_async |-> is_async, outcomes |-> {Returns(None)},
     doc |-> doc, signature |-> signature]

\* The functions whose schema is derived: every kind of parameter, with and
\* without default and annotation, and declared types that type_to_json_schema
\* maps, rejects at the top, rejects inside a container, or trips over.
DeclaredFuncs ==
    { Def("add", FALSE, "Add.",
          <<Param("a", "POSITIONAL_OR_KEYWORD", FALSE, Some(PlainType("int"))),
            Param("b", "POSITIONAL_OR_KEYWORD", TRUE,
                  Some(PlainType("float")))>>),
      Def("add", FALSE, None,
          <<Param("a", "POSITIONAL_OR_KEYWORD", FALSE, Some(PlainType("str"))),
            Param("args", "VAR_POSITIONAL", FALSE, Nothing),
            Param("kwargs", "VAR_KEYWORD", FALSE, Nothing)>>),
      Def("add", TRUE, None,
          <<Param("a", "POSITIONAL_OR_KEYWORD", FALSE, Nothing),
            Param("b", "KEYWORD_ONLY", FALSE, Some(PlainType("bool")))>>),
      Def("add", FALSE, None,
          <<Param("a", "POSITIONAL_OR_KEYWORD", FALSE,
                  Some(GenericType("list", <<PlainType("int")>>))),
            Param("b", "POSITIONAL_OR_KEYWORD", TRUE,
                  Some(GenericType("dict", <<PlainType("str"),
                                             PlainType("str")>>)))>>),
      Def("add", FALSE, None,
          <<Param("a", "POSITIONAL_OR_KEYWORD", TRUE, Some(PlainType("int"))),
            Param("b", "POSITIONAL_OR_KEYWORD", TRUE,
                  Some(PlainType("tuple")))>>),
      Def("add", FALSE, None,
          <<Param("a", "POSITIONAL_OR_KEYWORD", FALSE,
                  Some(GenericType("list", <<PlainType("tuple")>>)))>>),
      Def("echo", FALSE, None,
          <<Param("a", "POSITIONAL_OR_KEYWORD", FALSE,
                  Some(AnnotatedType(PlainType("int"),
                                     <<MetaStr("count")>>)))>>),
      Def("echo", FALSE, None,
          <<Param("a", "POSITIONAL_OR_KEYWORD", FALSE,
                  Some(AnnotatedType(PlainType("int"), <<MetaOther>>)))>>),
      Def("echo", FALSE, None,
          <<Param("a", "POSITIONAL_OR_KEYWORD", FALSE,
                  Some(GenericType("dict", <<PlainType("int"),
                                             PlainType("str")>>)))>>),
      Def("echo", FALSE, None,
          <<Param("a", "POSITIONAL_OR_KEYWORD", FALSE,
                  Some(PlainType("NoneType"))),
            Param("b", "KEYWORD_ONLY", FALSE, Some(PlainType("list"))),
            Param("c", "KEYWORD_ONLY", TRUE, Some(PlainType("dict")))>>),
      Def("echo", FALSE, None,
          <<Param("a", "POSITIONAL_OR_KEYWORD", FALSE,
                  Some(TypedDictType(<<Field("x", PlainType("str"))>>)))>>),
      Def("echo", FALSE, None,
          <<Param("a", "POSITIONAL_OR_KEYWORD", FALSE,
                  Some(GenericType("Union", <<PlainType("int"),
                                              PlainType("str")>>)))>>),
      Def("echo", FALSE, None,
          <<Param("args", "VAR_POSITIONAL", FALSE, Some(PlainType("int"))),
            Param("kwargs", "VAR_KEYWORD", FALSE,
                  Some(PlainType("str")))>>) }

\* What deriving a schema comes to: the schema, or the exception raised.
SchemaOk(schema) == [raised |-> None, schema |-> Some(schema)]
SchemaError(e) == [raised |-> e, schema |-> Nothing]

\* type_dict(type_, description): description or ""
type_dict(type_, description) ==
    [type |-> type_,
     description |-> IF description = None THEN "" ELSE description]

\* The first item of a sequence of derivations that raised, 0 if none did.
FirstRaised(rs) ==
    IF \E i \in 1..Len(rs) : rs[i].raised # None
    THEN CHOOSE i \in 1..Len(rs) :
           /\ rs[i].raised # None
           /\ \A j \in 1..(i - 1) : rs[j].raised = None
    ELSE 0

\* The plain classes type_to_json_schema knows.
PlainSchemaType(name) ==
    CASE name = "dict" -> "object"
      [] name = "list" -> "array"
      [] name = "str" -> "string"
      [] name = "int" -> "integer"
      [] name = "float" -> "number"
      [] name = "bool" -> "boolean"
      [] name = "NoneType" -> "null"
      [] OTHER -> None

\* type_to_json_schema(t, desc)
RECURSIVE type_to_json_schema(_, _)
type_to_json_schema(t, desc) ==
    IF t.origin = "Annotated"
    THEN IF Len(t.args) + Len(t.meta) # 2 THEN SchemaError("AssertionError")
         ELSE IF ~(desc = None \/ desc = "")
              THEN SchemaError("AssertionError")
         ELSE IF ~t.meta[1].is_str THEN SchemaError("AssertionError")
         ELSE type_to_json_schema(t.args[1], t.meta[1].text)
    ELSE IF t.origin = "list"
    THEN IF Len(t.args) # 1 THEN SchemaError("AssertionError")
         ELSE LET items == type_to_json_schema(t.args[1], None)
              IN  IF items.raised # None THEN items
                  ELSE SchemaOk(type_dict("array", desc)
                                @@ [items |-> items.schema[1]])
    ELSE IF t.origin = "dict"
    THEN IF Len(t.args) # 2 THEN SchemaError("AssertionError")
         ELSE IF t.args[1] # PlainType("str")
              THEN SchemaError("AssertionError")
         ELSE LET additional == type_to_json_schema(t.args[2], None)
              IN  IF additional.raised # None THEN additional
                  ELSE SchemaOk(type_dict("object", desc)
                                @@ [additionalProperties |->
                                      additional.schema[1]])
    ELSE IF t.name = "TypedDict"
    THEN LET rs == [i \in 1..Len(t.fields) |->
                      type_to_json_schema(t.fields[i].type, None)]
             bad == FirstRaised(rs)
         IN  IF bad # 0 THEN rs[bad]
             ELSE SchemaOk(type_dict("object", desc)
                           @@ [properties |->
                                 [i \in 1..Len(rs) |->
                                    [name |-> t.fields[i].name,
                                     schema |-> rs[i].schema[1]]]])
    ELSE IF t.origin = None /\ PlainSchemaType(t.name) # None
    THEN SchemaOk(type_dict(PlainSchemaType(t.name), desc))
    ELSE SchemaError("ValueError")

\* Mutant: *args and **kwargs are required too.
required_params_with_var(signature) ==
    LET names == [i \in 1..Len(signature) |-> signature[i].name]
        keep == {i \in 1..Len(signature) : ~signature[i].has_default}
    IN  [i \in 1..Cardinality(keep) |->
           names[CHOOSE k \in keep :
                   Cardinality({j \in keep : j <= k}) = i]]

\* The names of the parameters without a default that are neither *args nor
\* **kwargs, in the order of the signature.
required_params(signature) ==
    LET names == [i \in 1..Len(signature) |-> signature[i].name]
        keep == {i \in 1..Len(signature) :
                   /\ ~signature[i].has_default
                   /\ signature[i].kind \notin
                        {"VAR_POSITIONAL", "VAR_KEYWORD"}}
    IN  [i \in 1..Cardinality(keep) |->
           names[CHOOSE k \in keep :
                   Cardinality({j \in keep : j <= k}) = i]]

\* get_type_hints(func) without "return": the annotated parameters, in the
\* order of the signature.
annotated_params(signature) ==
    SelectSeq(signature, LAMBDA p : p.annotation # Nothing)

\* func_to_schema(func): register_tool passes no name, no description and no
\* parameter descriptions.
func_to_schema(func) ==
    LET annotations == annotated_params(func.signature)
        rs == [i \in 1..Len(annotations) |->
                 type_to_json_schema(annotations[i].annotation[1], None)]
        bad == FirstRaised(rs)
    IN  IF bad # 0 THEN rs[bad]
        ELSE SchemaOk(
               [type |-> "function",
                function |->
                  [name |-> func.name,
                   description |-> IF func.doc = None THEN "" ELSE func.doc,
                   parameters |->
                     [type |-> "object",
                      properties |->
                        [i \in 1..Len(rs) |->
                           [name |-> annotations[i].name,
                            schema |-> rs[i].schema[1]]],
                      required |-> required_params(func.signature)]]])

\* Chat.register_tool of a declared function: the schema is derived when the
\* tool is built, before the registry is touched; the call is noted as the
\* caller's last.
RegisterDeclared(func) ==
    /\ cur = NoHandle
    /\ LET tool == func_to_schema(func)
       IN  /\ tools' = IF tool.raised # None THEN tools
                       ELSE register_tool(tools, func)
           /\ last_call' = [op |-> "register_tool", arg |-> <<func>>,
                            raised |-> tool.raised, before |-> turns,
                            registry |-> tools, schema |-> tool.schema]
    /\ UNCHANGED <<turns, gen, cur, nrequests>>

\* The requests _invoke_tools is made to handle one by one: each tool name
\* with each shape of arguments.
ToolRequestInputs ==
    { ContentToolRequest("c9", name, arguments) :
        name \in {"add", "echo"},
        arguments \in {DictArgs({"a"}), DictArgs({"a", "b"}), ScalarArgs} }

\* One pass of the loop of _invoke_tools (or _invoke_tools_async) on x:
\* look the function up, invoke it, with the call and its result noted.
InvokeOne(x, is_async) ==
    /\ cur = NoHandle
    /\ \A h \in AllHandles : gen[h].pc = "idle"
    /\ LET func == tools_get(tools, x.name)
       IN  \E outcome \in Outcomes(func) :
             last_call' =
               [op |-> "invoke_tool", arg |-> <<x, is_async>>,
                raised |-> None, before |-> turns,
                result |-> IF is_async
                           THEN invoke_tool_async(func, x.arguments, x.id, outcome)
                           ELSE invoke_tool(func, x.arguments, x.id, outcome),
                did |-> IF func = Nothing THEN Returns("<not called>")
                        ELSE IF is_async
                        THEN CallAwait(func[1], x.arguments, outcome)
                        ELSE CallSync(func[1], x.arguments, outcome)]
    /\ UNCHANGED <<turns, tools, gen, cur, nrequests>>

\* Chat.chat / chat_async / stream / stream_async: build the user turn and the
\* generator.
Submit(h, api, is_async, stream, input) ==
    /\ cur = NoHandle
    /\ Finished(h)
    /\ api = "stream" => stream
    /\ nrequests < MaxRequests
    /\ gen' = [gen EXCEPT ![h] =
                 [IdleGen EXCEPT !.pc = "created", !.api = api,
                                 !.is_async = is_async, !.stream = stream,
                                 !.input = input,
                                 !.user_turn_result = Some(user_turn(input)),
                                 !.start_turns = turns,
                                 !.before = turns]]
    /\ cur' = IF api = "stream" THEN NoHandle ELSE h
    /\ UNCHANGED <<turns, tools, nrequests>>
    /\ last_call' = NoCall

\* Mutant: the handle keeps the last chunk only.
next_content_last(content, chunk) == chunk

\* ChatResponse.__next__: self.content += chunk
next_content(content, chunk) == content \o chunk

\* next() on the handle: the generator starts, or resumes after its yield.
Advance(h) ==
    /\ cur = AtYield(h)
    /\ \/ /\ gen[h].pc = "created"
          /\ gen' = [gen EXCEPT ![h].pc = "submit"]
       \/ /\ gen[h].pc = "at_yield_chunk"
          /\ gen' = [gen EXCEPT
                ![h].pc = "streaming",
                ![h].result = stream_merge_chunks(gen[h].result, Head(gen[h].response)),
                ![h].response = Tail(gen[h].response)]
       \/ /\ gen[h].pc = "at_yield_value"
          /\ gen' = [gen EXCEPT ![h].pc = "extend"]
    /\ cur' = h
    /\ UNCHANGED <<turns, tools, nrequests, last_call>>

\* What closing the generator does to the provider's chunk stream.  Neither
\* the wrapper generator of stream() nor the "for chunk in response" loop of
\* _submit_turns closes the response (there is no response.close(), no
\* try/finally and no "with response"): the stream stays as it was, until the
\* garbage collector finalizes it, if it ever does.
stream_on_close(provider_stream) ==
    IF provider_stream = "open" THEN {"open", "closed"} ELSE {provider_stream}

\* The caller closes or drops a handle whose generator is suspended.
Close(h) ==
    /\ cur = NoHandle
    /\ gen[h].api = "stream"
    /\ gen[h].pc \in {"created", "at_yield_chunk"}
    /\ turns' = turns_on_close(turns, gen[h].user_turn_result, gen[h].result)
    /\ \E s \in stream_on_close(gen[h].provider_stream) :
          gen' = [gen EXCEPT ![h] =
                    Ended([gen[h] EXCEPT !.provider_stream = s],
                          "closed", "GeneratorExit")]
    /\ UNCHANGED <<tools, cur, nrequests, last_call>>

\* ChatResponse.consumed: the generator's frame is gone.
consumed(g) == g.pc \in {"done", "failed", "closed"}

\* ChatResponse.__iter__ returns the handle itself: a further "for chunk in
\* response" (or get_content(), or str()) goes on with the same generator.
Iterate(h) ==
    /\ cur = NoHandle
    /\ gen[h].api = "stream"
    /\ gen[h].pc \in {"created", "at_yield_chunk"}
    /\ gen' = [gen EXCEPT ![h].reiterated = TRUE, ![h].iter_content = ""]
    /\ UNCHANGED <<turns, tools, cur, nrequests, last_call>>

\* Mutant: the exhausted handle delivers its content again.
next_exhausted_replay(g) == [g EXCEPT !.stopped = TRUE, !.content = @ \o @]

\* ChatResponse.__next__ on a generator that has finished: next() raises
\* StopIteration before "self.content += chunk" is reached.
next_exhausted(g) == [g EXCEPT !.stopped = TRUE]

\* The caller consumes a handle again after its generator has finished.
NextExhausted(h) ==
    /\ cur = NoHandle
    /\ consumed(gen[h])
    /\ gen' = [gen EXCEPT ![h] = next_exhausted(gen[h])]
    /\ UNCHANGED <<turns, tools, cur, nrequests, last_call>>

----------------------------------------------------------------------------
(* _submit_turns / _submit_turns_async *)

Running(h, pc) == cur = h /\ gen[h].pc = pc

\* The answers the stub provider can give to the next request: it asks for
\* tools only while it can serve the request that follows.
Menu ==
    IF nrequests + 1 < MaxRequests THEN ToolResponses \cup FinalResponses
    ELSE FinalResponses

AsksTools(r) == IF r.tool_calls # <<>> THEN 1 ELSE 0

\* data_model is not None: extract_data passes one, _chat_impl none.
has_data_model(g) == g.api = "extract"

\* The answers to the next request of handle h.
MenuFor(h) == IF has_data_model(gen[h]) THEN DataResponses ELSE Menu

\* _submit_turns: raise ValueError("Cannot use async tools in a synchronous chat")
SubmitAsyncToolError(h) ==
    /\ Running(h, "submit")
    /\ ~gen[h].is_async
    /\ any_async_tool(tools)
    /\ gen' = [gen EXCEPT ![h] = Ended(gen[h], "failed", "ValueError")]
    /\ cur' = NoHandle
    /\ UNCHANGED <<turns, tools, nrequests, last_call>>

\* Mutant: the request leaves the submission turn out.
chat_perform_args_no_input(ts, ut, registry) ==
    [turns |-> ts, tools |-> registry]

\* provider.chat_perform(turns=[*self._turns, user_turn], tools=self._tools)
chat_perform_args(ts, ut, registry) ==
    [turns |-> ts \o <<ut>>, tools |-> registry]

CanPerform(h) ==
    /\ Running(h, "submit")
    /\ nrequests < MaxRequests
    /\ gen[h].is_async \/ ~any_async_tool(tools)

\* provider.chat_perform raises
PerformRaise(h) ==
    /\ CanPerform(h)
    /\ turns' = turns_on_request(turns, gen[h].user_turn_result[1])
    /\ nrequests' = nrequests + 1
    /\ gen' = [gen EXCEPT ![h] =
                 Ended([gen[h] EXCEPT !.nreq = @ + 1, !.before = turns,
                                      !.provider_stream = "none"],
                       "failed", "ProviderError")]
    /\ cur' = NoHandle
    /\ UNCHANGED <<tools, last_call>>

\* provider.chat_perform(stream=True, ...) returns a chunk stream
PerformStream(h) ==
    /\ CanPerform(h)
    /\ gen[h].stream
    /\ turns' = turns_on_request(turns, gen[h].user_turn_result[1])
    /\ nrequests' = nrequests + 1
    /\ \E r \in MenuFor(h) : \E cs \in ChunkStreams(r) :
          gen' = [gen EXCEPT ![h].pc = "streaming", ![h].served = Some(r),
                             ![h].rounds = @ + AsksTools(r),
                             ![h].response = cs, ![h].result = Nothing,
                             ![h].chunks = cs, ![h].emitted = <<>>,
                             ![h].provider_stream = "open",
                             ![h].request = Some(chat_perform_args(
                                 turns, gen[h].user_turn_result[1], tools)),
                             ![h].nreq = @ + 1, ![h].before = turns]
    /\ UNCHANGED <<tools, cur, last_call>>

\* provider.chat_perform(stream=False, ...) returns a completion, and
\* provider.value_turn makes it a turn
PerformValue(h) ==
    /\ CanPerform(h)
    /\ ~gen[h].stream
    /\ turns' = turns_on_request(turns, gen[h].user_turn_result[1])
    /\ nrequests' = nrequests + 1
    /\ \E r \in MenuFor(h) :
          /\ ~as_turn_raises(Completion(r), has_data_model(gen[h]))
          /\ gen' = [gen EXCEPT ![h].pc = "value", ![h].served = Some(r),
                             ![h].rounds = @ + AsksTools(r),
                             ![h].chunks = <<>>, ![h].emitted = <<>>,
                             ![h].provider_stream = "none",
                             ![h].turn = Some(value_turn(Completion(r),
                                                         has_data_model(gen[h]))),
                             ![h].warnings = as_turn_warnings(r.tool_calls),
                             ![h].request = Some(chat_perform_args(
                                 turns, gen[h].user_turn_result[1], tools)),
                             ![h].nreq = @ + 1, ![h].before = turns]
    /\ UNCHANGED <<tools, cur, last_call>>

\* Mutant: "if text is not None".
truthy_not_none(text) == text # None

\* "if text:" on a str | None
truthy(text) == text # None /\ text # ""

\* One pass of "for chunk in response": emit and yield the text, or merge.
StreamChunk(h) ==
    /\ Running(h, "streaming")
    /\ gen[h].response # <<>>
    /\ LET chunk == Head(gen[h].response)
           text == stream_text(chunk)
       IN  IF truthy(text)
           THEN /\ gen' = [gen EXCEPT ![h].pc = "at_yield_chunk",
                                      ![h].emitted = Append(@, text),
                                      ![h].request = Nothing,
                                      ![h].content = next_content(@, text),
                                      ![h].iter_content = @ \o text]
                /\ cur' = AtYield(h)
           ELSE /\ gen' = [gen EXCEPT
                     ![h].result = stream_merge_chunks(gen[h].result, chunk),
                     ![h].response = Tail(gen[h].response),
                     ![h].request = Nothing]
                /\ cur' = cur
    /\ UNCHANGED <<turns, tools, nrequests, last_call>>

\* The provider stream raises while it is iterated.
StreamRaise(h) ==
    /\ Running(h, "streaming")
    /\ gen' = [gen EXCEPT ![h] =
                 Ended([gen[h] EXCEPT !.provider_stream = "broken"],
                       "failed", "ProviderError")]
    /\ cur' = NoHandle
    /\ UNCHANGED <<turns, tools, nrequests, last_call>>

\* The stream is exhausted: provider.stream_turn
StreamEnd(h) ==
    /\ Running(h, "streaming")
    /\ gen[h].response = <<>>
    /\ ~as_turn_raises(gen[h].result[1], has_data_model(gen[h]))
    /\ gen' = [gen EXCEPT ![h].pc = "extend",
                          ![h].request = Nothing,
                          ![h].provider_stream = "exhausted",
                          ![h].turn = Some(stream_turn(gen[h].result[1],
                                                       has_data_model(gen[h]))),
                          ![h].warnings =
                              as_turn_warnings(gen[h].result[1].tool_calls)]
    /\ UNCHANGED <<turns, tools, cur, nrequests, last_call>>

\* stream=False: "if turn.text: emit; yield turn.text"
ValueEmit(h) ==
    /\ Running(h, "value")
    /\ IF truthy(turn_text(gen[h].turn[1]))
       THEN /\ gen' = [gen EXCEPT ![h].pc = "at_yield_value",
                                  ![h].request = Nothing,
                                  ![h].emitted = Append(@, turn_text(gen[h].turn[1])),
                                  ![h].content =
                                      next_content(@, turn_text(gen[h].turn[1])),
                                  ![h].iter_content = @ \o turn_text(gen[h].turn[1])]
            /\ cur' = AtYield(h)
       ELSE /\ gen' = [gen EXCEPT ![h].pc = "extend", ![h].request = Nothing]
            /\ cur' = cur
    /\ UNCHANGED <<turns, tools, nrequests, last_call>>

\* Mutant: extract_data runs the tool loop as chat() does.
after_submit_turns_loop(api) == "invoke_tools"

\* What the caller of _submit_turns does when the generator is exhausted:
\* _chat_impl goes on to _invoke_tools, extract_data reads the last turn.
after_submit_turns(api) ==
    IF api = "extract" THEN "extract_tail" ELSE "invoke_tools"

\* self._turns.extend([user_turn, turn]); _chat_impl goes on to _invoke_tools
Extend(h) ==
    /\ Running(h, "extend")
    /\ turns' = extend_turns(turns, gen[h].user_turn_result[1], gen[h].turn[1])
    /\ gen' = [gen EXCEPT ![h].pc = after_submit_turns(gen[h].api),
                          ![h].chunks = <<>>, ![h].emitted = <<>>]
    /\ UNCHANGED <<tools, cur, nrequests, last_call>>

----------------------------------------------------------------------------
(* _invoke_tools / _invoke_tools_async *)

\* turn = self.get_last_turn(); results = []
InvokeTools(h) ==
    /\ Running(h, "invoke_tools")
    /\ LET last == get_last_turn(turns, "assistant")
       IN  gen' = [gen EXCEPT ![h].pc = "tool_loop",
                              ![h].todo = IF last = Nothing THEN <<>>
                                          ELSE requests_of(last[1]),
                              ![h].results = <<>>,
                              ![h].calls = <<>>,
                              ![h].blocking = <<>>]
    /\ UNCHANGED <<turns, tools, cur, nrequests, last_call>>

\* One ContentToolRequest of the loop: look the tool up and invoke it.
InvokeTool(h) ==
    /\ Running(h, "tool_loop")
    /\ gen[h].todo # <<>>
    /\ LET x == Head(gen[h].todo)
           func == tools_get(tools, x.name)
       IN  \E outcome \in Outcomes(func) :
             LET r == IF gen[h].is_async
                      THEN invoke_tool_async(func, x.arguments, x.id, outcome)
                      ELSE invoke_tool(func, x.arguments, x.id, outcome)
                 did == IF func = Nothing THEN Returns("<not called>")
                        ELSE IF gen[h].is_async
                        THEN CallAwait(func[1], x.arguments, outcome)
                        ELSE CallSync(func[1], x.arguments, outcome)
             IN  gen' = [gen EXCEPT ![h].todo = Tail(@),
                                    ![h].results = append_result(@, r),
                                    ![h].calls = Append(@, did),
                                    ![h].blocking = Append(@,
                                        invoke_tool(func, x.arguments, x.id,
                                                    outcome))]
    /\ UNCHANGED <<turns, tools, cur, nrequests, last_call>>

\* The return of _invoke_tools and the test of _chat_impl's while loop.
ToolsReturn(h) ==
    /\ Running(h, "tool_loop")
    /\ gen[h].todo = <<>>
    /\ LET next == tools_turn(gen[h].results)
       IN  IF next = Nothing
           THEN /\ gen' = [gen EXCEPT ![h] = Ended(gen[h], "done", None)]
                /\ cur' = NoHandle
           ELSE /\ gen' = [gen EXCEPT ![h].pc = "submit", ![h].user_turn_result = next]
                /\ cur' = cur
    /\ UNCHANGED <<turns, tools, nrequests, last_call>>

----------------------------------------------------------------------------
(* extract_data / extract_data_async *)

\* provider.value_turn raises on the completion chat_perform returned: the
\* exception leaves _submit_turns before self._turns.extend.
ValueTurnRaise(h) ==
    /\ CanPerform(h)
    /\ ~gen[h].stream
    /\ turns' = turns_on_request(turns, gen[h].user_turn_result[1])
    /\ nrequests' = nrequests + 1
    /\ \E r \in MenuFor(h) :
          /\ as_turn_raises(Completion(r), has_data_model(gen[h]))
          /\ gen' = [gen EXCEPT ![h] =
                       Ended([gen[h] EXCEPT !.served = Some(r),
                                            !.nreq = @ + 1, !.before = turns,
                                            !.provider_stream = "none"],
                             "failed", "JSONDecodeError")]
    /\ cur' = NoHandle
    /\ UNCHANGED <<tools, last_call>>

\* provider.stream_turn raises on the completion the chunks were merged into.
StreamTurnRaise(h) ==
    /\ Running(h, "streaming")
    /\ gen[h].response = <<>>
    /\ as_turn_raises(gen[h].result[1], has_data_model(gen[h]))
    /\ gen' = [gen EXCEPT ![h] =
                 Ended([gen[h] EXCEPT !.provider_stream = "exhausted"],
                       "failed", "JSONDecodeError")]
    /\ cur' = NoHandle
    /\ UNCHANGED <<turns, tools, nrequests, last_call>>

\* A provider other than OpenAIProvider answers a request that carries a
\* data model with two structured items.
PerformValueTwoJson(h) ==
    /\ CanPerform(h)
    /\ ~gen[h].stream
    /\ has_data_model(gen[h])
    /\ turns' = turns_on_request(turns, gen[h].user_turn_result[1])
    /\ nrequests' = nrequests + 1
    /\ gen' = [gen EXCEPT ![h].pc = "value", ![h].served = Nothing,
                          ![h].provider_stream = "none",
                          ![h].turn = Some(TwoJsonTurn),
                          ![h].request = Some(chat_perform_args(
                              turns, gen[h].user_turn_result[1], tools)),
                          ![h].nreq = @ + 1, ![h].before = turns]
    /\ UNCHANGED <<tools, cur, last_call>>

IsJson(x) == x.kind = "json"

\* res: the ContentJson items of the turn
json_results(turn) == SelectSeq(turn.contents, IsJson)

extract_error(n) ==
    "Data extraction failed: " \o ToString(n) \o " data results received."

\* Mutant: the first structured item is returned when there are several.
extract_data_result_first(turn) ==
    LET res == json_results(turn)
    IN  IF res = <<>>
        THEN [raised |-> extract_error(Len(res)), value |-> Nothing]
        ELSE [raised |-> None, value |-> Some(res[1].value)]

\* The end of extract_data: raise unless len(res) == 1, else return
\* res[0].value.
extract_data_result(turn) ==
    LET res == json_results(turn)
    IN  IF Len(res) # 1
        THEN [raised |-> extract_error(Len(res)), value |-> Nothing]
        ELSE [raised |-> None, value |-> Some(res[1].value)]

\* The response is consumed: turn = self.get_last_turn() and what follows.
\* Mutant: a failed extraction takes its pair out of the history.
turns_on_extract_rollback(ts, before, raised) ==
    IF raised # None THEN before ELSE ts

\* The tail of extract_data reads self._turns and does not write it, whether
\* it returns or raises.
turns_on_extract(ts, before, raised) == ts

ExtractData(h) ==
    /\ Running(h, "extract_tail")
    /\ LET out == extract_data_result(get_last_turn(turns, "assistant")[1])
       IN  /\ gen' = [gen EXCEPT ![h] =
                        Ended([gen[h] EXCEPT !.returned = out.value],
                              IF out.raised # None THEN "failed" ELSE "done",
                              out.raised)]
           /\ turns' = turns_on_extract(turns, gen[h].before, out.raised)
    /\ cur' = NoHandle
    /\ UNCHANGED <<tools, nrequests, last_call>>

----------------------------------------------------------------------------
(* Chat: get_turns, set_turns, system_prompt *)

\* Mutant: the system turn is returned whatever the flag says.
get_turns_keep_system(ts, include_system_prompt) == ts

\* Chat.get_turns(include_system_prompt=...)
get_turns(ts, include_system_prompt) ==
    IF ts = <<>> THEN ts
    ELSE IF ~include_system_prompt /\ ts[1].role = "system" THEN Tail(ts)
    ELSE ts

IsSystem(turn) == turn.role = "system"

\* Mutant: the error names the last system turn.
RECURSIVE first_system_last(_)
first_system_last(new) ==
    IF new = <<>> THEN 0
    ELSE IF IsSystem(new[Len(new)]) THEN Len(new) - 1
    ELSE first_system_last(SubSeq(new, 1, Len(new) - 1))

\* next(i for i, x in enumerate(turns) if x.role == "system")
RECURSIVE first_system(_)
first_system(new) ==
    IF IsSystem(Head(new)) THEN 0 ELSE 1 + first_system(Tail(new))

\* The ValueError of set_turns, or None.
set_turns_error(new) ==
    IF \E i \in DOMAIN new : IsSystem(new[i])
    THEN "Turn " \o ToString(first_system(new)) \o " has a role 'system', which is not allowed."
    ELSE None

\* Chat.set_turns: self._turns = list(turns), unless it raised.
set_turns(ts, new) == IF set_turns_error(new) # None THEN ts ELSE new

\* The system_prompt property's getter.
system_prompt(ts) ==
    IF ts # <<>> /\ ts[1].role = "system" THEN turn_text(ts[1]) ELSE None

\* Mutant: a system turn that is there stays.
system_prompt_set_keep_old(ts, value) ==
    IF ts # <<>> /\ ts[1].role = "system" THEN ts
    ELSE IF value # None THEN <<Turn("system", <<ContentText(value)>>)>> \o ts
    ELSE ts

\* Mutant: the old system turn is not popped.
system_prompt_set_no_pop(ts, value) ==
    IF value # None THEN <<Turn("system", <<ContentText(value)>>)>> \o ts ELSE ts

\* Mutant: the new system turn is appended.
system_prompt_set_append(ts, value) ==
    LET popped == IF ts # <<>> /\ ts[1].role = "system" THEN Tail(ts) ELSE ts
    IN  IF value # None
        THEN popped \o <<Turn("system", <<ContentText(value)>>)>>
        ELSE popped

\* The system_prompt property's setter: pop(0) a system turn, insert(0, ...)
\* the new one.
system_prompt_set(ts, value) ==
    LET popped == IF ts # <<>> /\ ts[1].role = "system" THEN Tail(ts) ELSE ts
    IN  IF value # None
        THEN <<Turn("system", <<ContentText(value)>>)>> \o popped
        ELSE popped

\* The turns the caller passes to set_turns.
SetTurnsInputs ==
    { <<>>,
      <<Turn("user", <<ContentText("q")>>),
        Turn("assistant", <<ContentText("r")>>)>>,
      <<SystemTurn>>,
      <<Turn("user", <<ContentText("q")>>), SystemTurn,
        Turn("assistant", <<ContentText("r")>>),
        Turn("system", <<ContentText("be kind")>>)>> }

\* The values the caller assigns to system_prompt.
PromptValues == {None, "be terse", "be kind"}

\* The caller lets go of the handle of a finished submission.
Drop(h) ==
    /\ cur = NoHandle
    /\ gen[h].pc \in {"done", "failed", "closed"}
    /\ gen' = [gen EXCEPT ![h] = IdleGen]
    /\ UNCHANGED <<turns, tools, cur, nrequests, last_call>>

\* The caller works on the history between submissions, holding no handle.
BetweenSubmissions == cur = NoHandle /\ \A h \in AllHandles : gen[h].pc = "idle"

\* chat.set_turns(new)
SetTurns(new) ==
    /\ BetweenSubmissions
    /\ turns' = set_turns(turns, new)
    /\ last_call' = [op |-> "set_turns", arg |-> new,
                     raised |-> set_turns_error(new), before |-> turns]
    /\ UNCHANGED <<tools, gen, cur, nrequests>>

\* chat.system_prompt = value
SetSystemPrompt(value) ==
    /\ BetweenSubmissions
    /\ turns' = system_prompt_set(turns, value)
    /\ last_call' = [op |-> "system_prompt", arg |-> <<value>>,
                     raised |-> None, before |-> turns]
    /\ UNCHANGED <<tools, gen, cur, nrequests>>

\* chat.get_turns(include_system_prompt=include)
GetTurns(include) ==
    /\ BetweenSubmissions
    /\ last_call' = [op |-> "get_turns", arg |-> <<include>>, raised |-> None,
                     before |-> turns, result |-> get_turns(turns, include)]
    /\ UNCHANGED <<turns, tools, gen, cur, nrequests>>

\* Mutant: the token counts of the first assistant turn.
token_usage_first(ts) ==
    LET assistants == SelectSeq(ts, LAMBDA t : t.role = "assistant")
    IN  IF assistants = <<>> \/ assistants[1].tokens = Nothing THEN <<0, 0>>
        ELSE assistants[1].tokens[1]

\* Chat.token_usage()
token_usage(ts) ==
    LET turn == get_last_turn(ts, "assistant")
    IN  IF turn = Nothing THEN <<0, 0>>
        ELSE IF turn[1].tokens = Nothing THEN <<0, 0>>
        ELSE turn[1].tokens[1]

\* chat.token_usage()
TokenUsage ==
    /\ BetweenSubmissions
    /\ last_call' = [op |-> "token_usage", arg |-> <<>>, raised |-> None,
                     before |-> turns, result |-> token_usage(turns)]
    /\ UNCHANGED <<turns, tools, gen, cur, nrequests>>

NonSystem(ts) == SelectSeq(ts, LAMBDA t : ~IsSystem(t))

\* The caller saves the chat and restores it: T = get_turns(
\* include_system_prompt=True); p = system_prompt; set_turns(the non-system
\* turns of T); system_prompt = p.
RoundTrip ==
    /\ BetweenSubmissions
    /\ LET T == get_turns(turns, TRUE)
           p == system_prompt(turns)
       IN  turns' = system_prompt_set(set_turns(turns, NonSystem(T)), p)
    /\ last_call' = [op |-> "round_trip", arg |-> <<>>,
                     raised |-> None, before |-> turns]
    /\ UNCHANGED <<tools, gen, cur, nrequests>>

----------------------------------------------------------------------------
(* Specifications *)

\* The steps of the generator of handle h.
Step(h) ==
    \/ PerformStream(h)
    \/ PerformValue(h)
    \/ StreamChunk(h)
    \/ StreamEnd(h)
    \/ ValueEmit(h)
    \/ Extend(h)
    \/ InvokeTools(h)
    \/ InvokeTool(h)
    \/ ToolsReturn(h)

Next ==
    \/ \E f \in ToolFuncs : RegisterTool(f)
    \/ \E h \in SeqHandles, api \in {"chat", "stream"}, is_async \in BOOLEAN,
          stream \in BOOLEAN, input \in Inputs :
            Submit(h, api, is_async, stream, input)
    \/ \E h \in SeqHandles : Advance(h)
    \/ \E h \in SeqHandles : Close(h)
    \/ \E h \in SeqHandles : PerformRaise(h)
    \/ \E h \in SeqHandles : StreamRaise(h)
    \/ \E h \in SeqHandles : SubmitAsyncToolError(h)
    \/ \E h \in SeqHandles : Step(h)

Spec == Init /\ [][Next]_vars

\* extract_data and extract_data_async, next to the synchronous entry points
\* chat and stream.
ExtractSubmit(h, api, is_async, stream, input) ==
    /\ api # "extract" => ~is_async
    /\ Submit(h, api, is_async, stream, input)

ExtractNext ==
    \/ \E f \in ToolFuncs : RegisterTool(f)
    \/ \E h \in SeqHandles, api \in {"chat", "stream", "extract"},
          is_async \in BOOLEAN, stream \in BOOLEAN, input \in Inputs :
            ExtractSubmit(h, api, is_async, stream, input)
    \/ \E h \in SeqHandles : Advance(h)
    \/ \E h \in SeqHandles : Close(h)
    \/ \E h \in SeqHandles : PerformRaise(h)
    \/ \E h \in SeqHandles : StreamRaise(h)
    \/ \E h \in SeqHandles : SubmitAsyncToolError(h)
    \/ \E h \in SeqHandles : Step(h)
    \/ \E h \in SeqHandles : PerformValueTwoJson(h)
    \/ \E h \in SeqHandles : ValueTurnRaise(h)
    \/ \E h \in SeqHandles : StreamTurnRaise(h)
    \/ \E h \in SeqHandles : ExtractData(h)

ExtractSpec == Init /\ [][ExtractNext]_vars

\* The caller's operations on the history, between submissions that chat()
\* or chat_async() consume.
HistSubmit(h, is_async, stream, input) ==
    Submit(h, "chat", is_async, stream, input)

HistNext ==
    \/ \E f \in ToolFuncs : RegisterTool(f)
    \/ \E h \in SeqHandles, is_async \in BOOLEAN, stream \in BOOLEAN,
          input \in Inputs : HistSubmit(h, is_async, stream, input)
    \/ \E h \in SeqHandles : Advance(h)
    \/ \E h \in SeqHandles : SubmitAsyncToolError(h)
    \/ \E h \in SeqHandles : Step(h)
    \/ \E h \in SeqHandles : Drop(h)
    \/ \E new \in SetTurnsInputs : SetTurns(new)
    \/ \E value \in PromptValues : SetSystemPrompt(value)
    \/ RoundTrip
    \/ \E include \in BOOLEAN : GetTurns(include)
    \/ TokenUsage

HistSpec == Init /\ [][HistNext]_vars

\* The engine against a provider that answers every request, with tools that
\* return or raise, and a caller that keeps consuming the handle (as chat()
\* does): no provider failure, no cancellation, no async tool under a
\* synchronous submission.
LiveRegisterTool(f) ==
    /\ f.is_async => \A h \in SeqHandles : Finished(h) \/ gen[h].is_async
    /\ RegisterTool(f)

LiveSubmit(h, api, is_async, stream, input) ==
    /\ ~is_async => ~any_async_tool(tools)
    /\ Submit(h, api, is_async, stream, input)

LiveNext ==
    \/ \E f \in ToolFuncs : LiveRegisterTool(f)
    \/ \E h \in SeqHandles, api \in {"chat", "stream"}, is_async \in BOOLEAN,
          stream \in BOOLEAN, input \in Inputs :
            LiveSubmit(h, api, is_async, stream, input)
    \/ \E h \in SeqHandles : Advance(h)
    \/ \E h \in SeqHandles : Step(h)

\* Python runs a generator on until it yields or returns, and the caller's
\* loop asks for the next chunk until the handle is exhausted.
LiveSpec ==
    /\ Init
    /\ [][LiveNext]_vars
    /\ \A h \in SeqHandles : WF_vars(Advance(h)) /\ WF_vars(Step(h))

\* Two stream() handles of one Chat, which the caller consumes in any order.
\* Neither stream() nor _submit_turns takes a lock or tests for a submission
\* in progress: whichever handle the caller advances runs.
ConcSubmit(h, input) == Submit(h, "stream", FALSE, TRUE, input)

ConcNext ==
    \/ \E h \in AllHandles, input \in Inputs : ConcSubmit(h, input)
    \/ \E h \in AllHandles : Advance(h)
    \/ \E h \in AllHandles : PerformStream(h)
    \/ \E h \in AllHandles : StreamChunk(h)
    \/ \E h \in AllHandles : StreamEnd(h)
    \/ \E h \in AllHandles : Extend(h)
    \/ \E h \in AllHandles : InvokeTools(h)
    \/ \E h \in AllHandles : InvokeTool(h)
    \/ \E h \in AllHandles : ToolsReturn(h)

ConcSpec == Init /\ [][ConcNext]_vars

\* One handle and what its caller can do with it: chat() consumes it before
\* it returns it, the handle of stream() is consumed by the caller, who may
\* loop over it more than once and go on after it is exhausted.
HandleSubmit(h, api, stream, input) == Submit(h, api, FALSE, stream, input)

HandleNext ==
    \/ \E h \in SeqHandles, api \in {"chat", "stream"}, stream \in BOOLEAN,
          input \in Inputs : HandleSubmit(h, api, stream, input)
    \/ \E h \in SeqHandles : Advance(h)
    \/ \E h \in SeqHandles : Step(h)
    \/ \E h \in SeqHandles : Iterate(h)
    \/ \E h \in SeqHandles : NextExhausted(h)

HandleSpec == Init /\ [][HandleNext]_vars

\* Registrations, of a second tool name too, between submissions that
\* chat() or chat_async() consume.
RegSubmit(h, is_async, stream, input) ==
    Submit(h, "chat", is_async, stream, input)

RegNext ==
    \/ \E f \in AllToolFuncs : Register(f)
    \/ \E h \in SeqHandles, is_async \in BOOLEAN, stream \in BOOLEAN,
          input \in Inputs : RegSubmit(h, is_async, stream, input)
    \/ \E h \in SeqHandles : Advance(h)
    \/ \E h \in SeqHandles : SubmitAsyncToolError(h)
    \/ \E h \in SeqHandles : Step(h)

RegSpec == Init /\ [][RegNext]_vars

\* Tool invocation on its own and inside chat() and chat_async(), with the
\* tools "add" and "echo" registered or not.
ToolSubmit(h, is_async, input) == Submit(h, "chat", is_async, FALSE, input)

ToolNext ==
    \/ \E f \in AllToolFuncs : Register(f)
    \/ \E x \in ToolRequestInputs, is_async \in BOOLEAN : InvokeOne(x, is_async)
    \/ \E h \in SeqHandles, is_async \in BOOLEAN, input \in Inputs :
          ToolSubmit(h, is_async, input)
    \/ \E h \in SeqHandles : Advance(h)
    \/ \E h \in SeqHandles : SubmitAsyncToolError(h)
    \/ \E h \in SeqHandles : PerformValue(h)
    \/ \E h \in SeqHandles : ValueEmit(h)
    \/ \E h \in SeqHandles : Extend(h)
    \/ \E h \in SeqHandles : InvokeTools(h)
    \/ \E h \in SeqHandles : InvokeTool(h)
    \/ \E h \in SeqHandles : ToolsReturn(h)

ToolSpec == Init /\ [][ToolNext]_vars

\* The caller registers declared functions, one after the other.
SchemaNext == \E func \in DeclaredFuncs : RegisterDeclared(func)

SchemaSpec == Init /\ [][SchemaNext]_vars

----------------------------------------------------------------------------
(* Properties *)

Last(seq) == seq[Len(seq)]

\* Requesting cycles of submission g that have appended their pair: every
\* request made, but the one still being answered or that failed or was
\* cancelled.
Completed(g) ==
    IF g.pc \in {"streaming", "at_yield_chunk", "value", "at_yield_value", "extend"}
       \/ (g.pc = "failed" /\ g.raised = "ProviderError")
       \/ (g.pc = "closed" /\ g.nreq > 0)
    THEN g.nreq - 1
    ELSE g.nreq

\* The user turn ut answers the tool requests of assistant turn a: one result
\* per request, the i-th result carrying the id of the i-th request.
Answers(ut, a) ==
    /\ ut.role = "user"
    /\ Len(ut.contents) = Len(requests_of(a))
    /\ \A i \in 1..Len(ut.contents) :
          /\ ut.contents[i].kind = "tool_result"
          /\ ut.contents[i].id = requests_of(a)[i].id

\* Submission g is about to resubmit the results of a tool round.
Resubmitting(g) == g.pc = "submit" /\ g.nreq >= 1

\* C1: after one round whose result turn holds no ToolRequest, history is the
\* history H of the submission followed by exactly [U, A], with U the user turn
\* built from the input and A the provider's answer as an assistant turn, for
\* stream=True and stream=False alike.
C1_NoToolRoundAppendsPair ==
    \A h \in SeqHandles :
        (gen[h].pc = "done" /\ gen[h].nreq = 1) =>
            LET A == value_turn(Completion(gen[h].served[1]),
                                has_data_model(gen[h]))
            IN  /\ turns = gen[h].start_turns \o <<user_turn(gen[h].input), A>>
                /\ Last(turns).role = "assistant"
                /\ requests_of(Last(turns)) = <<>>

C1_Witness ==
    /\ gen["h1"].pc = "done" /\ gen["h1"].nreq = 1
    /\ gen["h1"].stream /\ gen["h1"].content = "ab"
    /\ gen["h1"].start_turns # <<>>

\* C2: every completed Requesting cycle has appended exactly its pair
\* [submission turn, result turn], in that order, once: history is the
\* submission's starting history plus one user/assistant pair per completed
\* cycle, and a submission that ends after k tool rounds has grown it by
\* 2*(k+1) turns.
C2_OnePairPerCycle ==
    \A h \in SeqHandles :
        gen[h].pc # "idle" =>
            LET g == gen[h]
                n0 == Len(g.start_turns)
            IN  /\ Len(turns) = n0 + 2 * Completed(g)
                /\ SubSeq(turns, 1, n0) = g.start_turns
                /\ \A j \in 1..Completed(g) :
                      /\ turns[n0 + 2 * j - 1].role = "user"
                      /\ turns[n0 + 2 * j].role = "assistant"
                /\ g.pc \in {"invoke_tools", "tool_loop"} =>
                      SubSeq(turns, Len(turns) - 1, Len(turns))
                          = <<g.user_turn_result[1], g.turn[1]>>
                /\ g.pc = "done" => Len(turns) = n0 + 2 * (g.rounds + 1)

C2_Witness ==
    /\ gen["h1"].pc = "done" /\ gen["h1"].rounds = 2
    /\ Len(turns) = Len(gen["h1"].start_turns) + 6

\* C3: against a provider that asks for tools in N consecutive rounds and then
\* stops, with tools that return or raise, every submission that was made
\* eventually reaches Done, having made exactly N+1 provider requests.
C3_ToolLoopTerminates ==
    \A h \in SeqHandles :
        (gen[h].pc = "created")
            ~> (gen[h].pc = "done" /\ gen[h].nreq = gen[h].rounds + 1)

C3_Witness ==
    /\ gen["h1"].pc = "done" /\ gen["h1"].rounds = 2 /\ gen["h1"].nreq = 3

\* C4: the loop goes back to Requesting after a round exactly when that
\* round's assistant turn holds a ToolRequest, whatever the tools did; at Done
\* the last turn of history is an assistant turn without ToolRequest.
C4_ResubmitIffToolRequest ==
    \A h \in SeqHandles :
        /\ Resubmitting(gen[h]) =>
              /\ Last(turns).role = "assistant"
              /\ requests_of(Last(turns)) # <<>>
        /\ gen[h].pc = "done" =>
              /\ Last(turns).role = "assistant"
              /\ requests_of(Last(turns)) = <<>>

C4_Witness ==
    /\ Resubmitting(gen["h1"])
    /\ \A i \in 1..Len(gen["h1"].user_turn_result[1].contents) :
          gen["h1"].user_turn_result[1].contents[i].error # None

\* C5: the ToolRequests of a round are processed in the order of the assistant
\* turn's contents, and their results are collected into one user turn whose
\* i-th result carries the id of the i-th request; that turn is the
\* submission turn of the next cycle and is committed before its answer.
C5_ResultsInRequestOrder ==
    \A h \in SeqHandles :
        LET g == gen[h]
        IN  /\ g.pc = "tool_loop" =>
                  /\ Len(g.results) + Len(g.todo) = Len(requests_of(Last(turns)))
                  /\ \A i \in 1..Len(g.results) :
                        g.results[i].id = requests_of(Last(turns))[i].id
                  /\ \A i \in 1..Len(g.todo) :
                        g.todo[i] = requests_of(Last(turns))[Len(g.results) + i]
            /\ Resubmitting(g) => Answers(g.user_turn_result[1], Last(turns))
            /\ (g.pc \in {"invoke_tools", "tool_loop", "done"} /\ g.nreq >= 2) =>
                  Answers(turns[Len(turns) - 1], turns[Len(turns) - 2])

C5_Witness ==
    /\ gen["h1"].pc = "invoke_tools" /\ gen["h1"].nreq = 2
    /\ Len(turns[Len(turns) - 1].contents) = 2
    /\ turns[Len(turns) - 1].contents[1].id = "c3"
    /\ turns[Len(turns) - 1].contents[2].id = "c1"

\* C6: a ToolRequest whose name is not registered yields
\* ToolResult(id of the request, value None, error "Unknown tool"), and the
\* round goes on: every request of the turn gets its result and the results
\* are resubmitted.
C6_UnknownTool ==
    \A h \in SeqHandles :
        LET g == gen[h]
            reqs == requests_of(Last(turns))
            Unknown(i, r) ==
                tools_get(tools, reqs[i].name) = Nothing =>
                    r = ContentToolResult(reqs[i].id, None, "Unknown tool")
        IN  /\ g.pc = "tool_loop" =>
                  \A i \in 1..Len(g.results) : Unknown(i, g.results[i])
            /\ Resubmitting(g) =>
                  /\ Len(g.user_turn_result[1].contents) = Len(reqs)
                  /\ \A i \in 1..Len(reqs) :
                        Unknown(i, g.user_turn_result[1].contents[i])

C6_Witness ==
    /\ Resubmitting(gen["h1"])
    /\ tools["add"] # Nothing
    /\ Len(gen["h1"].user_turn_result[1].contents) = 2
    /\ gen["h1"].user_turn_result[1].contents[1].error = "Unknown tool"
    /\ gen["h1"].user_turn_result[1].contents[2].error # "Unknown tool"

\* C7: an error raised by a tool call never ends the loop: it becomes
\* ToolResult(id of the request, value None, error the exception's message),
\* the only exceptions that end a submission are the provider's and the
\* async-tool check's, and the results are resubmitted.
C7_ToolErrorCaptured ==
    \A h \in SeqHandles :
        LET g == gen[h]
            reqs == requests_of(Last(turns))
            Captured(i, r) ==
                g.calls[i].raised =>
                    r = ContentToolResult(reqs[i].id, None, g.calls[i].msg)
        IN  /\ g.pc = "tool_loop" =>
                  /\ Len(g.calls) = Len(g.results)
                  /\ \A i \in 1..Len(g.results) : Captured(i, g.results[i])
            /\ Resubmitting(g) =>
                  /\ Len(g.calls) = Len(g.user_turn_result[1].contents)
                  /\ \A i \in 1..Len(g.calls) :
                        Captured(i, g.user_turn_result[1].contents[i])
            /\ g.pc = "failed" => g.raised \in {"ProviderError", "ValueError"}

C7_Witness ==
    /\ Resubmitting(gen["h1"])
    /\ gen["h1"].calls[1].raised
    /\ gen["h1"].user_turn_result[1].contents[1].error = "missing required argument"
    /\ gen["h1"].user_turn_result[1].contents[1].value = None

AllResults(ts) ==
    UNION { { ts[i].contents[j] : j \in { k \in 1..Len(ts[i].contents) :
                                            ts[i].contents[k].kind = "tool_result" } }
            : i \in 1..Len(ts) }

\* C8: no ToolResult of the engine has both value and error set: a call that
\* returned has error None and the returned value, a call that raised or an
\* unknown tool has value None and the error; and a result committed to
\* history carries the id of a ToolRequest of the assistant turn right before
\* its turn.
C8_ToolResultShape ==
    /\ \A r \in AllResults(turns) : ~(r.value # None /\ r.error # None)
    /\ \A i \in 1..Len(turns) :
          \A j \in 1..Len(turns[i].contents) :
              turns[i].contents[j].kind = "tool_result" =>
                  /\ i > 1
                  /\ turns[i - 1].role = "assistant"
                  /\ \E k \in 1..Len(requests_of(turns[i - 1])) :
                        requests_of(turns[i - 1])[k].id = turns[i].contents[j].id
    /\ \A h \in SeqHandles :
          LET g == gen[h]
          IN  g.pc = "tool_loop" =>
                  \A i \in 1..Len(g.results) :
                      /\ ~(g.results[i].value # None /\ g.results[i].error # None)
                      /\ ~g.calls[i].raised /\ g.results[i].error # "Unknown tool" =>
                            /\ g.results[i].error = None
                            /\ g.results[i].value = g.calls[i].value
                      /\ g.calls[i].raised \/ g.results[i].error = "Unknown tool" =>
                            /\ g.results[i].value = None
                            /\ g.results[i].error # None

C8_Witness ==
    /\ gen["h1"].pc = "done"
    /\ \E r \in AllResults(turns) : r.value = "3" /\ r.error = None
    /\ \E r \in AllResults(turns) : r.value = None /\ r.error = "Unknown tool"

\* C9: when the provider call fails, in the request or while its stream is
\* consumed, the provider's error ends the submission, and history is what it
\* was when the failing cycle began: the pairs of the cycles completed before
\* are there, nothing of the failing cycle is, and no request was retried.
C9_ProviderFailureLeavesHistory ==
    \A h \in SeqHandles :
        LET g == gen[h]
        IN  (g.pc = "failed" /\ g.raised = "ProviderError") =>
                /\ turns = g.before
                /\ Len(turns) = Len(g.start_turns) + 2 * (g.nreq - 1)
                /\ SubSeq(turns, 1, Len(g.start_turns)) = g.start_turns
                /\ cur # h

C9_Witness ==
    /\ gen["h1"].pc = "failed" /\ gen["h1"].raised = "ProviderError"
    /\ gen["h1"].nreq = 2 /\ gen["h1"].content = "abab"

\* C10: when a streaming submission is cancelled before the stream of its
\* current round is exhausted, history is what it was before that cycle:
\* neither the user turn nor a partial assistant turn is appended.
C10_CancelLeavesHistory ==
    \A h \in SeqHandles :
        LET g == gen[h]
        IN  g.pc = "closed" =>
                /\ turns = g.before
                /\ Len(turns) = Len(g.start_turns) + 2 * Completed(g)

C10_Witness ==
    /\ gen["h1"].pc = "closed" /\ gen["h1"].nreq = 2
    /\ gen["h1"].content = "aba"

\* C11: cancelling a streaming handle mid-stream closes the provider's chunk
\* stream: once the handle of a submission that had opened a stream is
\* closed, that stream is in its closed state.
C11_CancelClosesStream ==
    \A h \in AllHandles :
        (gen[h].pc = "closed" /\ gen[h].nreq > 0)
            => gen[h].provider_stream = "closed"

HasAsyncTool == \E n \in ToolNames : tools[n] # Nothing /\ tools[n][1].is_async

\* C12: with an async tool registered, a synchronous submission (chat, stream,
\* extract_data) that is about to ask the provider fails with the ValueError
\* instead: no request is made and the history is left as it is; and a
\* submission consumed by its own entry point that failed this way has made
\* no request at all and left the history as it was when it was submitted.
C12_AsyncToolFailsFast ==
    /\ [][\A h \in AllHandles :
            (/\ Running(h, "submit") /\ ~gen[h].is_async /\ HasAsyncTool
             /\ gen'[h] # gen[h])
                => /\ gen'[h].pc = "failed" /\ gen'[h].raised = "ValueError"
                   /\ gen'[h].nreq = gen[h].nreq
                   /\ nrequests' = nrequests
                   /\ turns' = turns]_vars
    /\ [](\A h \in AllHandles :
            (/\ gen[h].pc = "failed" /\ gen[h].raised = "ValueError"
             /\ gen[h].api # "stream")
                => gen[h].nreq = 0 /\ turns = gen[h].start_turns)

C12_Witness ==
    /\ HasAsyncTool
    /\ gen["h1"].pc = "failed" /\ gen["h1"].raised = "ValueError"
    /\ ~gen["h1"].is_async /\ gen["h1"].api = "stream"
    /\ gen["h1"].nreq = 0 /\ turns = gen["h1"].start_turns

SystemIndexes(ts) == {i \in DOMAIN ts : ts[i].role = "system"}

\* C13: set_turns with a sequence holding a system turn raises the
\* ValueError that names the (0-based) index of the first such turn and
\* leaves the history as it was; with a sequence holding none it stores
\* exactly that sequence.
C13_SetTurnsValidation ==
    last_call.op = "set_turns" =>
        LET new == last_call.arg
            sys == SystemIndexes(new)
        IN  IF sys # {}
            THEN LET first == CHOOSE i \in sys : \A j \in sys : i <= j
                 IN  /\ last_call.raised = "Turn " \o ToString(first - 1)
                            \o " has a role 'system', which is not allowed."
                     /\ turns = last_call.before
            ELSE /\ last_call.raised = None
                 /\ turns = new

C13_Witness ==
    /\ last_call.op = "set_turns"
    /\ last_call.raised = "Turn 1 has a role 'system', which is not allowed."
    /\ Cardinality(SystemIndexes(last_call.arg)) = 2
    /\ Len(turns) >= 3 /\ turns = last_call.before

\* C14: after a set_turns call that succeeded, system_prompt returns what it
\* returned before the call.
C14_SetTurnsKeepsSystemPrompt ==
    (last_call.op = "set_turns" /\ last_call.raised = None)
        => system_prompt(turns) = system_prompt(last_call.before)

\* C15: the history holds at most one system turn, and a system turn it
\* holds is its first turn.
C15_OneSystemTurnAtFront == SystemIndexes(turns) \subseteq {1}

C15_Witness ==
    /\ last_call.op = "system_prompt" /\ last_call.arg = <<"be kind">>
    /\ system_prompt(last_call.before) = "be terse"
    /\ system_prompt(turns) = "be kind"
    /\ Len(turns) >= 3

C17_ExtractSingleJson ==
    \A h \in AllHandles :
        (gen[h].api = "extract" /\ gen[h].nreq = 1 /\ turns # gen[h].before) =>
            LET js == SelectSeq(Last(turns).contents,
                                LAMBDA x : x.kind = "json")
            IN  /\ gen[h].pc = "done" =>
                    /\ Len(js) = 1
                    /\ gen[h].returned = Some(js[1].value)
                /\ gen[h].pc = "failed" =>
                    /\ Len(js) # 1
                    /\ gen[h].returned = Nothing
                    /\ gen[h].raised = "Data extraction failed: "
                          \o ToString(Len(js)) \o " data results received."

C17_Witness ==
    /\ gen["h1"].api = "extract" /\ gen["h1"].pc = "done"
    /\ gen["h1"].returned = Some(json_loads("{\"n\":1}"))
    /\ gen["h1"].stream

C17_WitnessTwo ==
    /\ gen["h1"].api = "extract" /\ gen["h1"].pc = "failed"
    /\ gen["h1"].raised = "Data extraction failed: 2 data results received."

\* The text of an answer, as one string.
AnswerText(r) == IF r.deltas = <<>> THEN "" ELSE Concat(r.deltas)

C18_WitnessOneChunk ==
    /\ gen["h1"].pc = "extend" /\ gen["h1"].stream
    /\ Len(gen["h1"].chunks) = 1
    /\ gen["h1"].emitted = <<"ab">>

\* C19: the cooperative mode behaves as the blocking mode does: given the
\* same requests of the provider and the same tool functions returning or
\* raising the same, the tool results of a cooperative submission (which it
\* appends to the history) are those the blocking mode makes of them.
C19_ModesAgree ==
    \A h \in SeqHandles :
        (gen[h].is_async /\ gen[h].pc = "tool_loop")
            => gen[h].results = gen[h].blocking

\* The chunks of the stream that the loop has pulled so far, and those of
\* them it has merged.
Pulled(g) ==
    SubSeq(g.chunks, 1, Len(g.chunks) - Len(g.response)
                        + (IF g.pc = "at_yield_chunk" THEN 1 ELSE 0))
Merged(g) == SubSeq(g.chunks, 1, Len(g.chunks) - Len(g.response))

\* The non-empty text deltas of chunks, in their order.
RECURSIVE TextDeltas(_)
TextDeltas(cs) ==
    IF cs = <<>> THEN <<>>
    ELSE (IF Head(cs).choices /\ Head(cs).content \notin {None, ""}
          THEN <<Head(cs).content>> ELSE <<>>) \o TextDeltas(Tail(cs))

RECURSIVE MergeAll(_, _)
MergeAll(acc, cs) ==
    IF cs = <<>> THEN acc
    ELSE MergeAll(stream_merge_chunks(acc, Head(cs)), Tail(cs))

InProgress(h) == gen[h].nreq > 0 /\ ~Finished(h)

\* C21: no two submissions against one Chat are in progress at once: while
\* one has made a request and has not reached Done, no other has made a
\* request or touched the history.
C21_OneSubmissionInProgress ==
    \A h \in AllHandles : \A k \in AllHandles \ {h} :
        ~(InProgress(h) /\ InProgress(k))

\* C22: in cooperative mode the invocations of one round are issued
\* concurrently, a later tool starting before an earlier one has completed:
\* by the time the first ToolResult of the round exists, every
\* ContentToolRequest of the round has been issued.  (InvokeTool is the call
\* and its await together: _invoke_tools_async awaits each invocation inside
\* the loop, before it looks at the next request.)
C22_ToolsIssuedConcurrently ==
    \A h \in AllHandles :
        (gen[h].is_async /\ gen[h].pc = "tool_loop" /\ gen[h].results # <<>>)
            => gen[h].todo = <<>>

\* C23: a response handle supports re-entrant consumption: a further
\* iteration begun after a prefix was consumed is given that prefix again
\* and then the rest of the stream, so once the handle is exhausted the
\* further iteration has been given the whole content.
C23_ReiterationReplaysPrefix ==
    \A h \in AllHandles :
        (gen[h].pc = "done" /\ gen[h].reiterated)
            => gen[h].iter_content = gen[h].content

\* C24: consuming a handle whose generator has finished yields no further
\* element (StopIteration), makes no provider request, leaves the history
\* and the accumulated content as they are, and the handle reports
\* consumed.
C24_ExhaustedHandle ==
    [][\A h \in AllHandles :
          (consumed(gen[h]) /\ gen'[h].pc = gen[h].pc /\ gen'[h] # gen[h])
              => /\ gen'[h].stopped
                 /\ gen'[h].content = gen[h].content
                 /\ gen'[h].nreq = gen[h].nreq
                 /\ consumed(gen'[h])
                 /\ turns' = turns
                 /\ nrequests' = nrequests]_vars

C24_Witness ==
    /\ gen["h1"].pc = "done" /\ gen["h1"].stopped
    /\ gen["h1"].api = "stream" /\ gen["h1"].content = "ab"
    /\ gen["h1"].nreq = 2

C24_WitnessChat ==
    /\ gen["h1"].pc = "done" /\ gen["h1"].stopped
    /\ gen["h1"].api = "chat" /\ gen["h1"].content # ""

\* The text of the assistant turns of a history, in order.
RECURSIVE AssistantText(_)
AssistantText(ts) ==
    IF ts = <<>> THEN ""
    ELSE (IF Head(ts).role = "assistant" THEN turn_text(Head(ts)) ELSE "")
         \o AssistantText(Tail(ts))

\* C25: consuming a handle delivers each text chunk once and appends it to
\* the content once: when the submission is done, the handle's content is
\* the text of the answers of its Requesting cycles, in order, which are the
\* assistant turns the submission has appended.
C25_ContentIsEmittedText ==
    \A h \in AllHandles :
        gen[h].pc = "done"
            => gen[h].content =
                 AssistantText(SubSeq(turns, Len(gen[h].start_turns) + 1,
                                      Len(turns)))

C25_Witness ==
    /\ gen["h1"].pc = "done" /\ gen["h1"].nreq = 2
    /\ gen["h1"].content = "abab"

\* The answer's content is present and is not a JSON document.
MalformedContent(r) ==
    ResponseContent(r) # None /\ ResponseContent(r) \notin JsonDocuments

\* C26: when a data model is present and the answer's content is malformed
\* JSON, finalizing the answer does not fail: the [user, assistant] pair is
\* appended, the assistant turn carrying no ContentJson, and no JSON error
\* ends the call.
C26_MalformedJsonRecovered ==
    \A h \in AllHandles :
        ( /\ has_data_model(gen[h])
          /\ gen[h].pc \in {"done", "failed"}
          /\ gen[h].provider_stream \in {"none", "exhausted"}
          /\ gen[h].served # Nothing
          /\ MalformedContent(gen[h].served[1]) )
            => /\ gen[h].raised # "JSONDecodeError"
               /\ Len(turns) = Len(gen[h].before) + 2
               /\ Last(turns).role = "assistant"
               /\ json_results(Last(turns)) = <<>>

\* C27: a tool call whose argument text is malformed JSON becomes a
\* ContentToolRequest with the call's id and name and empty arguments, with
\* one warning per such call; the other tool calls of the turn keep their
\* parsed arguments, and the round goes on: every request of the turn,
\* that one included, is invoked and gets its ContentToolResult.
C27_MalformedToolArguments ==
    \A h \in AllHandles :
        /\ (gen[h].pc = "extend" /\ gen[h].served # Nothing)
              => LET calls == gen[h].served[1].tool_calls
                     reqs == requests_of(gen[h].turn[1])
                 IN  /\ Len(reqs) = Len(calls)
                     /\ gen[h].warnings =
                          Cardinality({i \in 1..Len(calls) :
                                         calls[i].arguments = JsonMalformed})
                     /\ \A i \in 1..Len(calls) :
                          /\ reqs[i].id = calls[i].id
                          /\ reqs[i].name = calls[i].name
                          /\ calls[i].arguments = JsonMalformed
                                => reqs[i].arguments = DictArgs({})
                          /\ calls[i].arguments.json = "dict"
                                => reqs[i].arguments = DictArgs(calls[i].arguments.keys)
                          /\ calls[i].arguments = JsonScalar
                                => reqs[i].arguments = ScalarArgs
        /\ (gen[h].pc = "tool_loop" /\ gen[h].todo = <<>>)
              => LET reqs == requests_of(Last(turns))
                 IN  /\ Len(gen[h].results) = Len(reqs)
                     /\ \A i \in 1..Len(reqs) :
                          /\ gen[h].results[i].id = reqs[i].id
                          /\ (reqs[i].id = "c5" /\ tools["add"] = Some(ToolAdd))
                                => gen[h].calls[i] =
                                     CallSync(ToolAdd, DictArgs({}), Returns("3"))

\* The round of a turn with a malformed call is over: all three calls of
\* the turn have their results, the tool "add" was invoked for c5.
C27_Witness ==
    /\ gen["h1"].pc = "tool_loop" /\ gen["h1"].todo = <<>>
    /\ ~gen["h1"].is_async
    /\ tools["add"] = Some(ToolAdd)
    /\ Len(gen["h1"].results) = 3
    /\ gen["h1"].results[2].id = "c5"
    /\ gen["h1"].results[2].error = "missing required argument"
    /\ gen["h1"].results[3].id = "c4"

\* C28: a Requesting cycle calls chat_perform once, with the history as it
\* is (its leading system turn included) followed by the cycle's submission
\* turn, and with the registered tools; the call leaves the history as it
\* was, and it is the only request since the last committed pair.
C28_RequestArguments ==
    \A h \in AllHandles :
        gen[h].request # Nothing
            => /\ gen[h].request[1].turns =
                    turns \o <<gen[h].user_turn_result[1]>>
               /\ gen[h].request[1].tools = tools
               /\ turns = gen[h].before
               /\ 2 * (gen[h].nreq - 1) = Len(turns) - Len(gen[h].start_turns)

\* The second request of a submission on a history with a system prompt,
\* with a tool registered: the system turn leads, the tool results end.
C28_Witness ==
    /\ gen["h1"].request # Nothing
    /\ gen["h1"].nreq = 2
    /\ tools["add"] = Some(ToolAdd)
    /\ Len(gen["h1"].request[1].turns) = 4
    /\ gen["h1"].request[1].turns[1] = SystemTurn
    /\ gen["h1"].request[1].turns[4].role = "user"
    /\ gen["h1"].request[1].turns[4].contents[1].kind = "tool_result"

IsPrefix(s, t) == Len(s) <= Len(t) /\ SubSeq(t, 1, Len(s)) = s

\* C29: during a submission the history changes only by appending: at every
\* step of the loop (requests, chunks, tool invocations, cancellation) the
\* history before the step is a prefix of the history after it.
C29_AppendOnly == [][IsPrefix(turns, turns')]_vars

\* A submission of two cycles on a history that was not empty is done: its
\* two pairs follow the turns that were there.
C29_Witness ==
    /\ gen["h1"].pc = "done"
    /\ gen["h1"].start_turns # <<>>
    /\ Len(turns) = Len(gen["h1"].start_turns) + 4
    /\ IsPrefix(gen["h1"].start_turns, turns)

\* C30: registering a tool under a name that is taken replaces the entry:
\* a step that changes the registry sets the entry of one name to the
\* function just registered and leaves the other entries and the history
\* alone; after a registration the registry holds that function under its
\* name; and each invocation of the tool loop is a call of the function the
\* registry holds under the request's name.
C30_LastRegistrationWins ==
    /\ [][tools' # tools
            => /\ last_call'.op = "register_tool"
               /\ tools' = [tools EXCEPT ![last_call'.arg[1].name] =
                                             Some(last_call'.arg[1])]
               /\ turns' = turns]_vars
    /\ [](last_call.op = "register_tool"
            => /\ tools[last_call.arg[1].name] = Some(last_call.arg[1])
               /\ turns = last_call.before)
    /\ [](\A h \in AllHandles :
            gen[h].pc = "tool_loop"
              => LET reqs == requests_of(Last(turns))
                 IN  \A i \in 1..Len(gen[h].calls) :
                       LET func == tools_get(tools, reqs[i].name)
                       IN  func # Nothing
                             => \E o \in Outcomes(func) :
                                  gen[h].calls[i] =
                                    IF gen[h].is_async
                                    THEN CallAwait(func[1], reqs[i].arguments, o)
                                    ELSE CallSync(func[1], reqs[i].arguments, o))

\* "add" is registered again after a chat_async whose call c1 ran the
\* coroutine function that was registered before (its result is None, with
\* no error): the registry now holds the plain function, and the entry of
\* "echo" is as it was.
C30_Witness ==
    /\ last_call.op = "register_tool"
    /\ last_call.arg = <<ToolAdd>>
    /\ tools["add"] = Some(ToolAdd)
    /\ tools["echo"] = Some(ToolEcho)
    /\ \E i \in 1..Len(turns) :
          /\ turns[i].role = "user"
          /\ Len(turns[i].contents) = 2
          /\ turns[i].contents[2] = ContentToolResult("c1", None, None)

\* C31: get_turns(include_system_prompt=True) returns the whole history, in
\* stored order; get_turns(include_system_prompt=False) returns it without
\* its leading system turn; on a history with no system turn (the empty one
\* included) the two results are the same; the history is left as it was.
C31_GetTurns ==
    last_call.op = "get_turns"
        => /\ turns = last_call.before
           /\ last_call.arg[1] => last_call.result = turns
           /\ ~last_call.arg[1]
                => /\ last_call.result = NonSystem(turns)
                   /\ last_call.result =
                        (IF turns # <<>> /\ IsSystem(turns[1])
                         THEN Tail(turns) ELSE turns)
           /\ SystemIndexes(turns) = {}
                => /\ get_turns(turns, TRUE) = get_turns(turns, FALSE)
                   /\ last_call.result = turns

\* get_turns() on a history of a system turn and one committed pair.
C31_Witness ==
    /\ last_call.op = "get_turns" /\ ~last_call.arg[1]
    /\ Len(turns) = 3 /\ IsSystem(turns[1])
    /\ Len(last_call.result) = 2
    /\ last_call.result[1].role = "user"

\* C38: assigning system_prompt = v leaves the non-system turns and their
\* order as they were; afterwards system_prompt is v, the history has a
\* system turn, one and at the front, exactly when v is not None, and
\* assigning v once more gives the same history.
C38_SystemPromptAssignment ==
    last_call.op = "system_prompt"
        => LET v == last_call.arg[1]
           IN  /\ NonSystem(turns) = NonSystem(last_call.before)
               /\ system_prompt(turns) = v
               /\ SystemIndexes(turns) = (IF v # None THEN {1} ELSE {})
               /\ system_prompt_set(turns, v) = turns

\* The prompt of a chat with a committed pair is assigned the value it has.
C38_Witness ==
    /\ last_call.op = "system_prompt" /\ last_call.arg = <<"be terse">>
    /\ last_call.before = turns
    /\ Len(turns) >= 3

\* The prompt of a chat with a committed pair is removed.
C38_WitnessNone ==
    /\ last_call.op = "system_prompt" /\ last_call.arg = <<None>>
    /\ system_prompt(last_call.before) = "be terse"
    /\ Len(turns) >= 2 /\ turns = Tail(last_call.before)

\* The messages of the TypeError Python raises when a call does not fit the
\* function's parameters.
BindMessages ==
    {"missing required argument", "got an unexpected keyword argument",
     "takes 0 positional arguments"}

\* C32: a registered tool is called with the request's arguments as named
\* parameters when they are a dict (the body runs exactly when the keys are
\* the parameters' names) and with the arguments as one positional argument
\* otherwise (the body runs exactly when the function takes one parameter);
\* each request handled is one call and one result.
C32_NamedOrPositional ==
    /\ last_call.op = "invoke_tool"
          => LET x == last_call.arg[1]
                 func == tools_get(tools, x.name)
                 fits == IF x.arguments.dict
                         THEN x.arguments.keys = func[1].params
                         ELSE Cardinality(func[1].params) = 1
                 refused == /\ last_call.did.raised
                            /\ last_call.did.msg \in BindMessages
             IN  /\ last_call.result.id = x.id
                 /\ func # Nothing => (fits <=> ~refused)
                 /\ (func # Nothing /\ refused)
                       => last_call.result =
                            ContentToolResult(x.id, None, last_call.did.msg)
    /\ \A h \in AllHandles :
          gen[h].pc = "tool_loop"
            => /\ Len(gen[h].calls) = Len(gen[h].results)
               /\ Len(gen[h].calls) + Len(gen[h].todo)
                    = Len(requests_of(Last(turns)))

\* "echo", a function of one parameter, is called with a dict of two keys:
\* the keys are passed by name and the call is refused.
C32_Witness ==
    /\ last_call.op = "invoke_tool"
    /\ last_call.arg[1].name = "echo"
    /\ last_call.arg[1].arguments = DictArgs({"a", "b"})
    /\ tools["echo"] = Some(ToolEcho)
    /\ last_call.result.error = "got an unexpected keyword argument"

\* "echo" is called with arguments that are not a dict: they are its one
\* positional argument and the body runs.
C32_WitnessPositional ==
    /\ last_call.op = "invoke_tool"
    /\ last_call.arg[1].name = "echo"
    /\ last_call.arg[1].arguments = ScalarArgs
    /\ tools["echo"] = Some(ToolEcho)
    /\ last_call.result = ContentToolResult("c9", "a", None)

\* The roles of turns are "user" and "assistant" in turn, "user" first.
PairsOnly(ts) ==
    /\ Len(ts) % 2 = 0
    /\ \A i \in 1..Len(ts) :
          ts[i].role = (IF i % 2 = 1 THEN "user" ELSE "assistant")

\* C33: the submission loop appends [user, assistant] pairs only: a turn of
\* tool results enters the history together with the assistant turn that
\* answers it, so a history that did not end with a user turn when the
\* chat was made never ends with one, whatever fails or is cancelled.
C33_NeverEndsWithUserTurn ==
    /\ turns # <<>> => Last(turns).role # "user"
    /\ \A h \in SeqHandles :
          gen[h].pc # "idle"
            => /\ IsPrefix(gen[h].start_turns, turns)
               /\ PairsOnly(SubSeq(turns, Len(gen[h].start_turns) + 1,
                                    Len(turns)))

\* A streaming submission is cancelled in its second round, after the tool
\* results were computed and submitted: the history ends with the assistant
\* turn that asked for the tools.
C33_Witness ==
    /\ gen["h1"].pc = "closed" /\ gen["h1"].nreq = 2
    /\ Len(turns) = Len(gen["h1"].start_turns) + 2
    /\ requests_of(Last(turns)) # <<>>

\* The provider fails on the request of the second round.
C33_WitnessFailure ==
    /\ gen["h1"].pc = "failed" /\ gen["h1"].raised = "ProviderError"
    /\ gen["h1"].nreq = 2
    /\ requests_of(Last(turns)) # <<>>

\* C34: stream() is lazy and commits late: a handle that was made and not
\* advanced has made no request and left the history alone, and while the
\* consumer holds a chunk of a round, the last one included, the pair of
\* that round is not in the history; a consumer that stops there leaves the
\* history without it.
C34_LazyAndLate ==
    \A h \in SeqHandles :
        gen[h].api = "stream"
          => /\ gen[h].pc = "created"
                  => /\ gen[h].nreq = 0
                     /\ turns = gen[h].start_turns
                     /\ gen[h].provider_stream = "none"
             /\ gen[h].pc \in {"streaming", "at_yield_chunk", "closed"}
                  => /\ turns = gen[h].before
                     /\ Len(turns) = Len(gen[h].start_turns)
                                        + 2 * (IF gen[h].nreq = 0 THEN 0
                                               ELSE gen[h].nreq - 1)

\* The consumer took "a" and "b", the whole text of the first answer, and
\* stopped: nothing was appended.
C34_Witness ==
    /\ gen["h1"].api = "stream" /\ gen["h1"].pc = "closed"
    /\ gen["h1"].nreq = 1 /\ gen["h1"].content = "ab"
    /\ turns = gen["h1"].start_turns

\* The consumer holds the last chunk of text of the first answer.
C34_WitnessHolding ==
    /\ gen["h1"].api = "stream" /\ gen["h1"].pc = "at_yield_chunk"
    /\ gen["h1"].nreq = 1 /\ gen["h1"].emitted = <<"a", "b">>
    /\ turns = gen["h1"].start_turns

\* C35: extract_data performs one Requesting cycle: it makes one request,
\* appends one [user, assistant] pair when the cycle completes (none when
\* the request or its finalization fails), and neither invokes a tool nor
\* submits again, even when the assistant turn carries tool requests.
C35_ExtractOneCycle ==
    \A h \in AllHandles :
        gen[h].api = "extract"
          => /\ gen[h].nreq <= 1
             /\ gen[h].pc \notin {"invoke_tools", "tool_loop"}
             /\ gen[h].calls = <<>> /\ gen[h].results = <<>>
             /\ Len(turns) \in {Len(gen[h].start_turns),
                                 Len(gen[h].start_turns) + 2}
             /\ ( \/ gen[h].pc \in {"extract_tail", "done"}
                  \/ /\ gen[h].pc = "failed"
                     /\ gen[h].raised \notin {"ProviderError", "ValueError",
                                               "JSONDecodeError"} )
                  => /\ gen[h].nreq = 1
                     /\ turns = gen[h].start_turns
                                  \o <<user_turn(gen[h].input), Last(turns)>>
                     /\ Last(turns).role = "assistant"

\* extract_data has ended on an answer that asks for the registered tool
\* "add": one request was made and one pair appended.
C35_Witness ==
    /\ gen["h1"].api = "extract" /\ gen["h1"].pc = "failed"
    /\ gen["h1"].raised = "Data extraction failed: 0 data results received."
    /\ tools["add"] = Some(ToolAdd)
    /\ requests_of(Last(turns)) # <<>>
    /\ gen["h1"].nreq = 1

\* extract_data's error for a number of structured results that is not 1.
CountErrors == {extract_error(n) : n \in {0, 2}}

\* C36: when extract_data fails because the number of structured results
\* is not 1, the history is not rolled back: the [user, assistant] pair of
\* the request is in the history when the error is raised.
C36_ExtractErrorKeepsPair ==
    \A h \in AllHandles :
        (gen[h].api = "extract" /\ gen[h].pc = "failed"
           /\ gen[h].raised \in CountErrors)
          => /\ Len(turns) = Len(gen[h].before) + 2
             /\ SubSeq(turns, 1, Len(gen[h].before)) = gen[h].before
             /\ turns[Len(turns) - 1] = user_turn(gen[h].input)
             /\ Last(turns).role = "assistant"
             /\ Len(json_results(Last(turns))) # 1

\* extract_data got an answer with no structured result, on a history with
\* a system prompt.
C36_Witness ==
    /\ gen["h1"].api = "extract" /\ gen["h1"].pc = "failed"
    /\ gen["h1"].raised = extract_error(0)
    /\ Len(turns) = 3 /\ turns[1] = SystemTurn

\* C37: cooperative mode has no fail-fast check for plain functions: a
\* chat_async never ends with the async-tool ValueError, and each request
\* for a registered plain function is answered by a ContentToolResult with
\* an error and no value (the function runs when the arguments fit, and
\* what it raised, or the TypeError of awaiting what it returned, is the
\* error), after which the loop submits the results.
C37_PlainToolInCooperativeMode ==
    \A h \in SeqHandles :
        gen[h].is_async
          => /\ gen[h].pc = "failed" => gen[h].raised # "ValueError"
             /\ gen[h].pc = "tool_loop"
                  => LET reqs == requests_of(Last(turns))
                     IN  \A i \in 1..Len(gen[h].results) :
                           LET func == tools_get(tools, reqs[i].name)
                           IN  (func # Nothing /\ ~func[1].is_async)
                                 => /\ gen[h].results[i].id = reqs[i].id
                                    /\ gen[h].results[i].value = None
                                    /\ gen[h].results[i].error # None
                                    /\ BindError(func[1], reqs[i].arguments) = None
                                         => gen[h].results[i].error \in
                                              {"object can't be used in 'await' expression"}
                                              \cup {o.msg : o \in
                                                      {p \in func[1].outcomes : p.raised}}

\* chat_async with the plain function "add" registered: the request was
\* made, "add" ran for c1 and returned, the result carries the TypeError of
\* the await, and the loop has gone on to submit the results.
C37_Witness ==
    /\ gen["h1"].is_async /\ gen["h1"].pc = "submit" /\ gen["h1"].nreq = 1
    /\ tools["add"] = Some(ToolAdd)
    /\ Len(gen["h1"].user_turn_result[1].contents) = 2
    /\ gen["h1"].user_turn_result[1].contents[2] =
         ContentToolResult("c1", None,
                           "object can't be used in 'await' expression")

\* The positions of the assistant turns of a history.
AssistantIndexes(ts) == {i \in 1..Len(ts) : ts[i].role = "assistant"}

\* C39: token_usage() returns the (input, output) token counts of the last
\* assistant turn of the history, and (0, 0) when the history has no
\* assistant turn or that turn carries no token counts; the counts of earlier
\* turns do not enter the result, and the history is left as it was.
C39_TokenUsage ==
    last_call.op = "token_usage"
        => LET idx == AssistantIndexes(turns)
               last == CHOOSE i \in idx : \A j \in idx : j <= i
           IN  /\ turns = last_call.before
               /\ idx = {} => last_call.result = <<0, 0>>
               /\ idx # {} /\ turns[last].tokens = Nothing
                    => last_call.result = <<0, 0>>
               /\ idx # {} /\ turns[last].tokens # Nothing
                    => last_call.result = turns[last].tokens[1]

\* token_usage() after a chat of two requests: the counts of the second
\* answer are returned, not theirs added to the first answer's.
C39_Witness ==
    /\ last_call.op = "token_usage"
    /\ last_call.result = <<5, 2>>
    /\ \E i, j \in AssistantIndexes(turns) :
          /\ i < j
          /\ turns[i].tokens = Some(<<7, 2>>)
          /\ turns[j].tokens = Some(<<5, 2>>)

\* token_usage() when the last assistant turn carries no token counts, after
\* an earlier one that does.
C39_WitnessNoCounts ==
    /\ last_call.op = "token_usage"
    /\ last_call.result = <<0, 0>>
    /\ \E i \in AssistantIndexes(turns) : turns[i].tokens = Nothing

\* The schema types a parameter's declared type can be mapped to.
SchemaTypes ==
    {"string", "integer", "number", "boolean", "null", "array", "object"}

\* A declared type with its Annotated wrappers taken off.
RECURSIVE Unwrapped(_)
Unwrapped(t) == IF t.origin = "Annotated" THEN Unwrapped(t.args[1]) ELSE t

\* The declared type is none of str, int, float, bool, NoneType, list (with
\* or without an item type), dict (likewise) and TypedDict.
OutsideSchemaTypes(t) ==
    LET u == Unwrapped(t)
    IN  /\ u.name \notin {"str", "int", "float", "bool", "NoneType", "list",
                          "dict", "TypedDict"}
        /\ u.origin \notin {"list", "dict"}

C40_WitnessRequired ==
    /\ last_call.op = "register_tool"
    /\ last_call.raised = None
    /\ Len(last_call.arg[1].signature) = 3
    /\ last_call.arg[1].signature[2].kind = "VAR_POSITIONAL"
    /\ last_call.schema[1].function.parameters.required = <<"a">>
    /\ last_call.schema[1].function.parameters.properties
         = <<[name |-> "a", schema |-> type_dict("string", None)]>>

============================================================================
